---- MODULE Spec2Model ----
(***************************************************************************)
(* Scoring and recommendation pipeline of the Shining Star diagnostic      *)
(* system: questionnaire catalog, response analyzer, pathway mapper,       *)
(* career advisor, course recommender and the assessment handler that      *)
(* chains them.                                                            *)
(*                                                                         *)
(* Python values are modelled as follows.  A list is a sequence, a dict    *)
(* with insertion order is a sequence of records, None is a sentinel       *)
(* record or string of the same shape.  An answer is IntAns(n) or TextAns  *)
(* (a str).  A call that raises returns a record whose err field names     *)
(* the exception class.                                                    *)
(***************************************************************************)
EXTENDS Integers, Sequences, FiniteSets, TLC

VARIABLES
    COMMON_QUESTIONS,   \* module-level list data.questionnaire.COMMON_QUESTIONS
    courses,            \* CourseRecommender.courses: category -> list of course dicts
    input,              \* arguments of the call under study
    ret,                \* what the last call returned (or raised)
    first_ret,          \* what the first analyze_responses call on input returned
    history,            \* names of the calls made so far, in order
    returned            \* lists handed out so far, with their contents at return time

vars == <<COMMON_QUESTIONS, courses, input, ret, first_ret, history, returned>>

(***************************************************************************)
(* Bounds of the model.                                                    *)
(***************************************************************************)
MaxCalls == 3
MaxResponses == 2
MaxDimResponses == 3
MaxStyleResponses == 4
MaxTopResponses == 4
MaxAssessments == 2
MaxInterests == 2
MaxMathTraits == 3
MaxParentResponses == 2
MaxRecommended == 2

(***************************************************************************)
(* Generic helpers.                                                        *)
(***************************************************************************)
Range(s) == {s[i] : i \in 1..Len(s)}

Min(a, b) == IF a < b THEN a ELSE b

\* s[a:b] of Python for 0 <= a <= b
Slice(s, a, b) == SubSeq(s, a + 1, Min(b, Len(s)))

\* the dicts with at most n of the entries [q, a], no two for one q, in every
\* insertion order
RECURSIVE Dicts(_, _)
Dicts(entries, n) ==
    IF n = 0 THEN {<<>>}
    ELSE LET shorter == Dicts(entries, n - 1)
         IN  shorter \cup
             UNION {{Append(s, e) : e \in {x \in entries : \A i \in 1..Len(s) : s[i].q # x.q}}
                    : s \in {t \in shorter : Len(t) = n - 1}}

(***************************************************************************)
(* Answers: an int index or free text.                                     *)
(***************************************************************************)
IntAns(n) == [t |-> "int", v |-> n]
TextAns == [t |-> "str", v |-> 0]

(***************************************************************************)
(* data/questionnaire.py                                                   *)
(***************************************************************************)
AGE_GROUPS ==
    [elementary |-> [min_age |-> 5, max_age |-> 10],
     middle     |-> [min_age |-> 11, max_age |-> 13],
     high       |-> [min_age |-> 14, max_age |-> 18]]

\* a question dict: its id, category, the one *_mapping key it carries, that
\* mapping list, and the number of options it offers
Q(id, category, mapkey, mapping, nopts) ==
    [id |-> id, category |-> category, mapkey |-> mapkey, mapping |-> mapping,
     nopts |-> nopts]

NoQuestion == Q("", "", "", <<>>, 0)

COMMON_QUESTIONS_INIT ==
  <<
    Q("ls_1", "learning_style", "learning_style_mapping", <<"visual", "auditory", "kinesthetic", "logical">>, 4),
    Q("ls_2", "learning_style", "learning_style_mapping", <<"visual", "auditory", "kinesthetic", "logical">>, 4),
    Q("ls_3", "learning_style", "learning_style_mapping", <<"social", "independent", "guided", "flexible">>, 4),
    Q("ps_1", "problem_solving", "trait_mapping", <<"example-based", "help-seeking", "persistent", "reflective">>, 4),
    Q("bh_1", "behavior", "trait_mapping", <<"structured", "independent", "distractible", "guidance-seeking">>, 4),
    Q("cr_1", "creativity", "trait_mapping", <<"structured", "combinatorial", "innovative", "iterative">>, 4),
    Q("tm_1", "time_management", "trait_mapping", <<"proactive", "methodical", "pressure-driven", "consistent">>, 4),
    Q("cm_1", "communication", "trait_mapping", <<"visual", "written", "demonstrative", "verbal">>, 4),
    Q("in_1", "interests", "interest_mapping", <<"math", "arts", "tech", "language">>, 4),
    Q("in_2", "interests", "interest_mapping", <<"tech", "entrepreneurship", "arts", "science">>, 4)
  >>

ELEMENTARY_QUESTIONS ==
  <<
    Q("elem_1", "learning_style", "learning_style_mapping", <<"visual", "auditory", "kinesthetic", "logical">>, 4),
    Q("elem_2", "problem_solving", "trait_mapping", <<"pattern_recognition">>, 4),
    Q("elem_3", "creativity", "trait_mapping", <<"mechanical", "visual", "educational", "entertainment">>, 4),
    Q("elem_4", "behavior", "trait_mapping", <<"leadership", "cooperative", "innovative", "independent">>, 4),
    Q("elem_5", "interests", "interest_mapping", <<"tech", "arts", "physical", "language">>, 4)
  >>

MIDDLE_SCHOOL_QUESTIONS ==
  <<
    Q("mid_1", "learning_style", "learning_style_mapping", <<"kinesthetic", "logical", "visual", "social">>, 4),
    Q("mid_2", "problem_solving", "trait_mapping", <<"analytical">>, 4),
    Q("mid_3", "creativity", "trait_mapping", <<"educational", "social", "practical", "creative">>, 4),
    Q("mid_4", "time_management", "trait_mapping", <<"confidence-building", "challenge-seeking", "deadline-driven", "organized">>, 4),
    Q("mid_5", "interests", "interest_mapping", <<"tech", "entrepreneurship", "media", "science">>, 4),
    Q("mid_6", "communication", "trait_mapping", <<"leadership", "independent", "collaborative", "innovative">>, 4)
  >>

HIGH_SCHOOL_QUESTIONS ==
  <<
    Q("high_1", "learning_style", "learning_style_mapping", <<"visual", "auditory", "kinesthetic", "social">>, 4),
    Q("high_2", "problem_solving", "trait_mapping", <<"pattern_recognition">>, 4),
    Q("high_3", "creativity", "trait_mapping", <<"innovative", "practical", "visionary">>, 0),
    Q("high_4", "time_management", "trait_mapping", <<"structured", "focused", "intuitive", "collaborative">>, 4),
    Q("high_5", "interests", "interest_mapping", <<"tech", "entrepreneurship", "creative", "science">>, 4),
    Q("high_6", "communication", "trait_mapping", <<"visual", "written", "interactive", "verbal">>, 4),
    Q("high_7", "behavior", "trait_mapping", <<"analytical", "experiential", "guidance-seeking", "innovative">>, 4),
    Q("high_8", "open_ended", "trait_mapping", <<"future_orientation", "goal_setting", "self_awareness">>, 0)
  >>

PARENT_MIRROR_QUESTIONS ==
  <<
    Q("parent_1", "learning_style", "learning_style_mapping", <<"visual", "auditory", "kinesthetic", "logical">>, 4),
    Q("parent_2", "behavior", "trait_mapping", <<"structured", "independent", "distractible", "guidance-seeking">>, 4),
    Q("parent_3", "problem_solving", "trait_mapping", <<"example-based", "help-seeking", "persistent", "reflective">>, 4),
    Q("parent_4", "creativity", "trait_mapping", <<"highly_creative", "moderately_creative", "structured", "context_dependent">>, 4),
    Q("parent_5", "interests", "interest_mapping", <<"tech", "arts", "social", "academic">>, 4)
  >>

\* get_questions_for_age without the .copy(): the band is appended to the
\* module-level list itself
get_questions_for_age_nocopy(common, age) ==
    LET questions ==
            IF age >= AGE_GROUPS.elementary.min_age /\ age <= AGE_GROUPS.elementary.max_age
                THEN common \o ELEMENTARY_QUESTIONS
            ELSE IF age >= AGE_GROUPS.middle.min_age /\ age <= AGE_GROUPS.middle.max_age
                THEN common \o MIDDLE_SCHOOL_QUESTIONS
            ELSE IF age >= AGE_GROUPS.high.min_age /\ age <= AGE_GROUPS.high.max_age
                THEN common \o HIGH_SCHOOL_QUESTIONS
            ELSE common
    IN  [ret |-> questions, common |-> questions]

get_questions_for_age_exclusive(common, age) ==
    LET questions ==
            IF age >= AGE_GROUPS.elementary.min_age /\ age < AGE_GROUPS.elementary.max_age
                THEN common \o ELEMENTARY_QUESTIONS
            ELSE IF age >= AGE_GROUPS.middle.min_age /\ age < AGE_GROUPS.middle.max_age
                THEN common \o MIDDLE_SCHOOL_QUESTIONS
            ELSE IF age >= AGE_GROUPS.high.min_age /\ age < AGE_GROUPS.high.max_age
                THEN common \o HIGH_SCHOOL_QUESTIONS
            ELSE common
    IN  [ret |-> questions, common |-> common]

\* get_questions_for_age(age), given the current contents of COMMON_QUESTIONS:
\* ret is the list returned, common the contents of COMMON_QUESTIONS afterwards
get_questions_for_age(common, age) ==
    LET questions ==
            IF age >= AGE_GROUPS.elementary.min_age /\ age <= AGE_GROUPS.elementary.max_age
                THEN common \o ELEMENTARY_QUESTIONS
            ELSE IF age >= AGE_GROUPS.middle.min_age /\ age <= AGE_GROUPS.middle.max_age
                THEN common \o MIDDLE_SCHOOL_QUESTIONS
            ELSE IF age >= AGE_GROUPS.high.min_age /\ age <= AGE_GROUPS.high.max_age
                THEN common \o HIGH_SCHOOL_QUESTIONS
            ELSE common
    IN  [ret |-> questions, common |-> common]

get_parent_questions == PARENT_MIRROR_QUESTIONS

(***************************************************************************)
(* data/analysis.py: static profiles                                       *)
(***************************************************************************)
LEARNING_STYLES ==
    [visual      |-> [name |-> "Visual Learner"],
     auditory    |-> [name |-> "Auditory Learner"],
     kinesthetic |-> [name |-> "Kinesthetic Learner"],
     logical     |-> [name |-> "Logical Learner"],
     social      |-> [name |-> "Social Learner"],
     independent |-> [name |-> "Independent Learner"]]

TRAITS ==
    [creative      |-> [name |-> "Creative Thinker"],
     analytical    |-> [name |-> "Analytical Thinker"],
     persistent    |-> [name |-> "Persistent Worker"],
     leadership    |-> [name |-> "Natural Leader"],
     collaborative |-> [name |-> "Team Collaborator"],
     organized     |-> [name |-> "Organized Planner"]]

INTERESTS ==
    [tech             |-> [name |-> "Technology & Computing"],
     arts             |-> [name |-> "Creative Arts"],
     entrepreneurship |-> [name |-> "Entrepreneurship & Business"],
     science          |-> [name |-> "Scientific Research"],
     language         |-> [name |-> "Communication & Language"]]

(***************************************************************************)
(* collections.Counter as the analyzer uses it: keys in first-insertion    *)
(* order, each with its count.                                             *)
(***************************************************************************)
CounterKeys(c) == {c[i].k : i \in 1..Len(c)}

CounterInc(c, key) ==
    IF key \in CounterKeys(c)
    THEN [i \in 1..Len(c) |-> IF c[i].k = key THEN [c[i] EXCEPT !.n = @ + 1] ELSE c[i]]
    ELSE Append(c, [k |-> key, n |-> 1])

CounterGet(c, key) ==
    IF key \in CounterKeys(c)
    THEN (CHOOSE e \in Range(c) : e.k = key).n
    ELSE 0

RemoveAt(s, i) == SubSeq(s, 1, i - 1) \o SubSeq(s, i + 1, Len(s))

\* index of the first entry with the largest count
FirstMax(c) ==
    CHOOSE i \in 1..Len(c) :
        /\ \A j \in 1..Len(c) : c[j].n <= c[i].n
        /\ \A j \in 1..(i - 1) : c[j].n < c[i].n

\* most_common ranking that prefers the LAST entry among equal counts
LastMax(c) ==
    CHOOSE i \in 1..Len(c) :
        /\ \A j \in 1..Len(c) : c[j].n <= c[i].n
        /\ \A j \in (i + 1)..Len(c) : c[j].n < c[i].n

RECURSIVE most_common_last(_, _)
most_common_last(c, n) ==
    IF n = 0 \/ c = <<>> THEN <<>>
    ELSE LET i == LastMax(c)
         IN  <<c[i].k>> \o most_common_last(RemoveAt(c, i), n - 1)

\* the keys of Counter.most_common(n): by count, largest first, equal counts
\* in insertion order
RECURSIVE most_common(_, _)
most_common(c, n) ==
    IF n = 0 \/ c = <<>> THEN <<>>
    ELSE LET i == FirstMax(c)
         IN  <<c[i].k>> \o most_common(RemoveAt(c, i), n - 1)

(***************************************************************************)
(* data/analysis.py: LearningStyleAnalyzer                                 *)
(***************************************************************************)
Value(v) == [err |-> "", val |-> v]
Raise(e) == [err |-> e, val |-> ""]

\* mapping[answer_index] on a Python list: a str index is a TypeError, an int
\* outside -len..len-1 an IndexError, a negative int counts from the end
PyIndex(mapping, answer_index) ==
    IF answer_index.t # "int" THEN Raise("TypeError")
    ELSE IF answer_index.v >= Len(mapping) \/ answer_index.v < -Len(mapping)
         THEN Raise("IndexError")
    ELSE IF answer_index.v >= 0 THEN Value(mapping[answer_index.v + 1])
    ELSE Value(mapping[Len(mapping) + answer_index.v + 1])

\* responses is a dict: the entries [q, a] in insertion order
HasKey(responses, q_id) == \E i \in 1..Len(responses) : responses[i].q = q_id

Lookup(responses, q_id) == (CHOOSE e \in Range(responses) : e.q = q_id).a

\* first question of the list with this id, or None
FirstWithId(questions, question_id) ==
    IF \E i \in 1..Len(questions) : questions[i].id = question_id
    THEN questions[CHOOSE i \in 1..Len(questions) :
                        /\ questions[i].id = question_id
                        /\ \A j \in 1..(i - 1) : questions[j].id # question_id]
    ELSE NoQuestion

_find_question(common, question_id, age) ==
    LET g == get_questions_for_age(common, age)
    IN  [question |-> FirstWithId(g.ret, question_id), common |-> g.common]

_find_parent_question(question_id) == FirstWithId(get_parent_questions, question_id)

\* one iteration of the loop over responses.items(); st carries the three
\* counters, the exception raised so far and the contents of COMMON_QUESTIONS
_count_response(st, r, age) ==
    IF st.err # "" THEN st
    ELSE
    LET f == _find_question(st.common, r.q, age)
        question == f.question
        base == [st EXCEPT !.common = f.common]
    IN  IF question = NoQuestion THEN base
        ELSE IF question.category = "learning_style"
                /\ question.mapkey = "learning_style_mapping"
        THEN LET x == PyIndex(question.mapping, r.a)
             IN  IF x.err # "" THEN [base EXCEPT !.err = x.err]
                 ELSE [base EXCEPT !.learning_style_counts = CounterInc(@, x.val)]
        ELSE IF question.mapkey = "trait_mapping"
        THEN \* isinstance(list) and len(mapping) > answer_index
             IF r.a.t # "int" THEN [base EXCEPT !.err = "TypeError"]
             ELSE IF Len(question.mapping) > r.a.v
             THEN LET x == PyIndex(question.mapping, r.a)
                  IN  IF x.err # "" THEN [base EXCEPT !.err = x.err]
                      ELSE [base EXCEPT !.trait_counts = CounterInc(@, x.val)]
             ELSE base
        ELSE IF question.mapkey = "trait_mapping:str"
        THEN \* a single trait: counted whatever the answer is
             [base EXCEPT !.trait_counts = CounterInc(@, question.mapping[1])]
        ELSE IF question.mapkey = "interest_mapping"
        THEN IF r.a.t # "int" THEN [base EXCEPT !.err = "TypeError"]
             ELSE IF Len(question.mapping) > r.a.v
             THEN LET x == PyIndex(question.mapping, r.a)
                  IN  IF x.err # "" THEN [base EXCEPT !.err = x.err]
                      ELSE [base EXCEPT !.interest_counts = CounterInc(@, x.val)]
             ELSE base
        ELSE base

RECURSIVE _count_responses(_, _, _, _)
_count_responses(st, responses, i, age) ==
    IF i > Len(responses) THEN st
    ELSE _count_responses(_count_response(st, responses[i], age), responses, i + 1, age)

\* the loop over relevant_question_ids, from the i-th id on: an id that is a
\* key of responses adds one to max_possible and, when its answer is at
\* least first_positive, one to positive_count; a str answer cannot be compared
RECURSIVE _count_positive(_, _, _, _, _)
_count_positive(st, responses, relevant_question_ids, i, first_positive) ==
    IF i > Len(relevant_question_ids) \/ st.err # "" THEN st
    ELSE IF ~HasKey(responses, relevant_question_ids[i])
    THEN _count_positive(st, responses, relevant_question_ids, i + 1, first_positive)
    ELSE IF Lookup(responses, relevant_question_ids[i]).t # "int"
    THEN [st EXCEPT !.err = "TypeError"]
    ELSE _count_positive(
            [st EXCEPT !.max_possible = @ + 1,
                       !.positive_count =
                            IF Lookup(responses, relevant_question_ids[i]).v >= first_positive
                            THEN @ + 1 ELSE @],
            responses, relevant_question_ids, i + 1, first_positive)

\* the normalisation with 0, not 50, for a dimension without a relevant answer
_normalize_zero(st) ==
    IF st.err # "" THEN Raise(st.err)
    ELSE IF st.max_possible = 0 THEN Value(0)
    ELSE Value((st.positive_count * 100) \div st.max_possible)

\* int((positive_count / max_possible) * 100): for max_possible <= 5 the float
\* product is below the exact quotient only where that is no integer, so the
\* truncation is the integer quotient of 100 * positive_count by max_possible
_normalize(st) ==
    IF st.err # "" THEN Raise(st.err)
    ELSE IF st.max_possible = 0 THEN Value(50)
    ELSE Value((st.positive_count * 100) \div st.max_possible)

\* the score with the second option counted as positive too
_calculate_dimension_score_from1(responses, relevant_question_ids) ==
    _normalize(_count_positive([err |-> "", positive_count |-> 0, max_possible |-> 0],
                               responses, relevant_question_ids, 1, 1))

_calculate_dimension_score(responses, relevant_question_ids) ==
    _normalize(_count_positive([err |-> "", positive_count |-> 0, max_possible |-> 0],
                               responses, relevant_question_ids, 1, 2))

DIMENSIONS ==
    [logical_thinking |-> <<"ps_1", "mid_2", "high_2">>,
     creativity       |-> <<"cr_1", "elem_3", "mid_3", "high_3">>,
     social_skills    |-> <<"ls_3", "mid_6", "high_6">>,
     self_direction   |-> <<"bh_1", "tm_1", "high_4">>]

DimensionNames == DOMAIN DIMENSIONS

primary_learning_style(learning_style_counts) ==
    IF learning_style_counts # <<>>
    THEN most_common(learning_style_counts, 1)[1]
    ELSE "visual"

\* the secondary styles taken from rank 1 instead of rank 2
secondary_learning_styles_from0(learning_style_counts) ==
    IF Len(learning_style_counts) > 1
    THEN Slice(most_common(learning_style_counts, 3), 0, 2)
    ELSE <<>>

secondary_learning_styles(learning_style_counts) ==
    IF Len(learning_style_counts) > 1
    THEN Slice(most_common(learning_style_counts, 3), 1, 3)
    ELSE <<>>

\* the top list ranked with the last-seen value first among equal counts
top3_last(counts) == most_common_last(counts, 3)

top3(counts) == most_common(counts, 3)

NoScores ==
    [logical_thinking |-> 0, creativity |-> 0, social_skills |-> 0, self_direction |-> 0]

\* an analyze_responses call that raised e
AnalysisRaised(e) ==
    [err |-> e, primary |-> "", secondary |-> <<>>, description |-> "",
     top_traits |-> <<>>, top_interests |-> <<>>, dimension_scores |-> NoScores,
     learning_style_counts |-> <<>>, trait_counts |-> <<>>, interest_counts |-> <<>>]

\* the four _calculate_dimension_score calls of analyze_responses
_dimension_scores(responses) ==
    [d \in DimensionNames |-> _calculate_dimension_score(responses, DIMENSIONS[d])]

\* the exception of the first dimension, in the order the code computes
\* them, whose score raised ("" when none did)
_dimension_error(scores) ==
    IF scores["logical_thinking"].err # "" THEN scores["logical_thinking"].err
    ELSE IF scores["creativity"].err # "" THEN scores["creativity"].err
    ELSE IF scores["social_skills"].err # "" THEN scores["social_skills"].err
    ELSE scores["self_direction"].err

\* the results dict built from the counters st and the dimension scores.
\* The three counters are kept in the record for the properties that speak of
\* the observed frequencies; the code's dict does not carry them.
_build_results(st, scores, primary) ==
    IF st.err # "" THEN AnalysisRaised(st.err)
    ELSE IF _dimension_error(scores) # "" THEN AnalysisRaised(_dimension_error(scores))
    ELSE IF primary \notin DOMAIN LEARNING_STYLES
         THEN AnalysisRaised("KeyError")  \* self.learning_styles[primary]
    ELSE [err |-> "", primary |-> primary,
          secondary |-> secondary_learning_styles(st.learning_style_counts),
          description |-> LEARNING_STYLES[primary].name,
          top_traits |-> top3(st.trait_counts),
          top_interests |-> top3(st.interest_counts),
          dimension_scores |-> [d \in DimensionNames |-> scores[d].val],
          learning_style_counts |-> st.learning_style_counts,
          trait_counts |-> st.trait_counts,
          interest_counts |-> st.interest_counts]

_analyze_counted(st, responses) ==
    [common |-> st.common,
     ret |-> _build_results(st, _dimension_scores(responses),
                            primary_learning_style(st.learning_style_counts))]

\* analyze_responses(responses, age) with COMMON_QUESTIONS holding common:
\* ret is the results dict (or the exception), common the list afterwards
analyze_responses(common, responses, age) ==
    _analyze_counted(
        _count_responses([err |-> "", common |-> common, learning_style_counts |-> <<>>,
                          trait_counts |-> <<>>, interest_counts |-> <<>>],
                         responses, 1, age),
        responses)

(***************************************************************************)
(* data/analysis.py: compare_parent_responses                              *)
(***************************************************************************)
\* one iteration of the loop over parent_responses.items(); None is "None"
_parent_response(st, r) ==
    IF st.err # "" THEN st
    ELSE IF _find_parent_question(r.q) = NoQuestion THEN st
    ELSE IF PyIndex(_find_parent_question(r.q).mapping, r.a).err # ""
         THEN [st EXCEPT !.err = PyIndex(_find_parent_question(r.q).mapping, r.a).err]
    ELSE IF _find_parent_question(r.q).category = "learning_style"
            /\ _find_parent_question(r.q).mapkey = "learning_style_mapping"
         THEN [st EXCEPT !.parent_learning_style =
                            PyIndex(_find_parent_question(r.q).mapping, r.a).val]
    ELSE IF _find_parent_question(r.q).mapkey = "trait_mapping"
         THEN [st EXCEPT !.parent_traits =
                            Append(@, PyIndex(_find_parent_question(r.q).mapping, r.a).val)]
    ELSE [st EXCEPT !.parent_interests =
                            Append(@, PyIndex(_find_parent_question(r.q).mapping, r.a).val)]

RECURSIVE _parent_perceptions(_, _, _)
_parent_perceptions(st, parent_responses, i) ==
    IF i > Len(parent_responses) THEN st
    ELSE _parent_perceptions(_parent_response(st, parent_responses[i]),
                             parent_responses, i + 1)

\* the sentences of the comparison, each as the facts it states
_style_sentences_silent(parent_learning_style, student_learning_style) ==
    IF parent_learning_style = student_learning_style
    THEN [alignments |-> <<[about |-> "learning_style", a |-> student_learning_style,
                            b |-> student_learning_style]>>,
          differences |-> <<>>, insights |-> <<>>]
    ELSE [alignments |-> <<>>,
          differences |-> <<[about |-> "learning_style",
                             a |-> IF parent_learning_style \in DOMAIN LEARNING_STYLES
                                   THEN parent_learning_style
                                   ELSE "different type of learner",
                             b |-> student_learning_style]>>,
          insights |-> <<>>]

_style_sentences(parent_learning_style, student_learning_style) ==
    IF parent_learning_style = student_learning_style
    THEN [alignments |-> <<[about |-> "learning_style", a |-> student_learning_style,
                            b |-> student_learning_style]>>,
          differences |-> <<>>, insights |-> <<>>]
    ELSE [alignments |-> <<>>,
          differences |-> <<[about |-> "learning_style",
                             a |-> IF parent_learning_style \in DOMAIN LEARNING_STYLES
                                   THEN parent_learning_style
                                   ELSE "different type of learner",
                             b |-> student_learning_style]>>,
          insights |-> <<[about |-> "learning_style", a |-> student_learning_style,
                          b |-> student_learning_style]>>]

RECURSIVE _trait_sentences(_, _, _, _)
_trait_sentences(acc, parent_traits, student_traits, i) ==
    IF i > Len(parent_traits) THEN acc
    ELSE _trait_sentences(
            IF parent_traits[i] \in Range(student_traits)
            THEN [acc EXCEPT !.alignments =
                    Append(@, [about |-> "trait", a |-> parent_traits[i], b |-> ""])]
            ELSE [acc EXCEPT !.differences =
                    Append(@, [about |-> "trait", a |-> parent_traits[i], b |-> ""])],
            parent_traits, student_traits, i + 1)

RECURSIVE _interest_sentences(_, _, _, _)
_interest_sentences(acc, parent_interests, student_interests, i) ==
    IF i > Len(parent_interests) THEN acc
    ELSE _interest_sentences(
            IF parent_interests[i] \in Range(student_interests)
            THEN [acc EXCEPT !.alignments =
                    Append(@, [about |-> "interest", a |-> parent_interests[i], b |-> ""])]
            ELSE [acc EXCEPT
                    !.differences =
                        Append(@, [about |-> "interest", a |-> parent_interests[i], b |-> ""]),
                    !.insights =
                        Append(@, [about |-> "interests",
                                   a |-> IF Len(student_interests) >= 1
                                         THEN student_interests[1] ELSE "",
                                   b |-> IF Len(student_interests) >= 2
                                         THEN student_interests[2] ELSE ""])],
            parent_interests, student_interests, i + 1)

_compare_perceptions(st, student_results) ==
    IF st.err # "" THEN [err |-> st.err, alignments |-> <<>>, differences |-> <<>>,
                         insights |-> <<>>]
    ELSE [err |-> ""] @@
         _interest_sentences(
            _trait_sentences(
                _style_sentences(st.parent_learning_style, student_results.primary),
                st.parent_traits, student_results.top_traits, 1),
            st.parent_interests, student_results.top_interests, 1)

compare_parent_responses(parent_responses, student_results) ==
    _compare_perceptions(
        _parent_perceptions([err |-> "", parent_learning_style |-> "None",
                             parent_traits |-> <<>>, parent_interests |-> <<>>],
                            parent_responses, 1),
        student_results)

(***************************************************************************)
(* data/analysis.py: generate_learning_badges                              *)
(***************************************************************************)
BADGES ==
    [visual |-> "Visual Virtuoso", auditory |-> "Sound Sage",
     kinesthetic |-> "Hands-On Hero", logical |-> "Logic Legend",
     social |-> "Team Tactician", independent |-> "Solo Scholar",
     creative |-> "Creative Genius", analytical |-> "Analytical Ace",
     persistent |-> "Persistence Pro", leadership |-> "Born Leader",
     tech |-> "Tech Wizard", arts |-> "Creative Visionary",
     entrepreneurship |-> "Future Founder", science |-> "Science Explorer",
     language |-> "Word Weaver"]

_secondary_badges_trait_only(top_traits, top_interests) ==
    IF top_traits # <<>> /\ top_traits[1] \in DOMAIN BADGES
    THEN <<BADGES[top_traits[1]]>> ELSE <<>>

\* the trait badge if available, then the interest badge if available
_secondary_badges(top_traits, top_interests) ==
    (IF top_traits # <<>> /\ top_traits[1] \in DOMAIN BADGES
     THEN <<BADGES[top_traits[1]]>> ELSE <<>>)
    \o
    (IF top_interests # <<>> /\ top_interests[1] \in DOMAIN BADGES
     THEN <<BADGES[top_interests[1]]>> ELSE <<>>)

generate_learning_badges(results) ==
    IF results.primary \notin DOMAIN BADGES
    THEN [err |-> "KeyError", primary_badge |-> "", secondary_badges |-> <<>>,
          combination_badges |-> <<>>]
    ELSE [err |-> "",
          primary_badge |-> BADGES[results.primary],
          secondary_badges |-> _secondary_badges(results.top_traits, results.top_interests),
          combination_badges |->
            (IF results.primary = "logical" /\ "tech" \in Range(results.top_interests)
             THEN <<"Code Commander">> ELSE <<>>)
            \o
            (IF results.primary = "visual" /\ "arts" \in Range(results.top_interests)
             THEN <<"Design Dynamo">> ELSE <<>>)
            \o
            (IF "leadership" \in Range(results.top_traits)
                /\ "entrepreneurship" \in Range(results.top_interests)
             THEN <<"Future CEO">> ELSE <<>>)
            \o
            (IF "creative" \in Range(results.top_traits)
                /\ "tech" \in Range(results.top_interests)
             THEN <<"Innovation Architect">> ELSE <<>>)]

(***************************************************************************)
(* data/pathway_mapper.py: LearningPathwayMapper                           *)
(***************************************************************************)
\* the keys of the catalog dicts, in insertion order (the same five in the
\* pathway mapper, the career advisor and the course recommender)
CATEGORIES == <<"tech", "arts", "entrepreneurship", "science", "language">>

\* "N-M" is <<N, M>>; a range string without "-" is <<>>
PathwayCourse(id, age_range) == [id |-> id, age_range |-> age_range]

PATHWAY_COURSES ==
    [tech |-> [entry |-> <<PathwayCourse("TECH101", <<8, 14>>), PathwayCourse("TECH102", <<9, 16>>)>>,
        intermediate |-> <<PathwayCourse("TECH201", <<12, 18>>), PathwayCourse("TECH202", <<13, 18>>)>>,
        advanced |-> <<PathwayCourse("TECH301", <<14, 18>>), PathwayCourse("TECH302", <<14, 18>>)>>],
     arts |-> [entry |-> <<PathwayCourse("ARTS101", <<8, 16>>), PathwayCourse("ARTS102", <<9, 16>>)>>,
        intermediate |-> <<PathwayCourse("ARTS201", <<12, 18>>), PathwayCourse("ARTS202", <<12, 18>>)>>,
        advanced |-> <<PathwayCourse("ARTS301", <<14, 18>>), PathwayCourse("ARTS302", <<15, 18>>)>>],
     entrepreneurship |-> [entry |-> <<PathwayCourse("BIZ101", <<10, 14>>), PathwayCourse("BIZ102", <<11, 16>>)>>,
        intermediate |-> <<PathwayCourse("BIZ201", <<13, 18>>), PathwayCourse("BIZ202", <<14, 18>>)>>,
        advanced |-> <<PathwayCourse("BIZ301", <<15, 18>>), PathwayCourse("BIZ302", <<15, 18>>)>>],
     science |-> [entry |-> <<PathwayCourse("SCI101", <<8, 12>>), PathwayCourse("SCI102", <<9, 14>>)>>,
        intermediate |-> <<PathwayCourse("SCI201", <<12, 16>>), PathwayCourse("SCI202", <<13, 18>>)>>,
        advanced |-> <<PathwayCourse("SCI301", <<14, 18>>), PathwayCourse("SCI302", <<15, 18>>)>>],
     language |-> [entry |-> <<PathwayCourse("LANG101", <<8, 14>>), PathwayCourse("LANG102", <<10, 16>>)>>,
        intermediate |-> <<PathwayCourse("LANG201", <<12, 18>>), PathwayCourse("LANG202", <<13, 18>>)>>,
        advanced |-> <<PathwayCourse("LANG301", <<14, 18>>), PathwayCourse("LANG302", <<15, 18>>)>>]]

learning_style_mappings ==
    [visual      |-> <<"arts", "tech">>,
     auditory    |-> <<"language", "science">>,
     kinesthetic |-> <<"tech", "science">>,
     logical     |-> <<"science", "tech">>,
     social      |-> <<"entrepreneurship", "language">>,
     independent |-> <<"science", "arts">>]

trait_mappings ==
    [creative      |-> <<"arts", "language">>,
     analytical    |-> <<"science", "tech">>,
     persistent    |-> <<"tech", "science">>,
     leadership    |-> <<"entrepreneurship", "language">>,
     collaborative |-> <<"entrepreneurship", "language">>,
     organized     |-> <<"science", "entrepreneurship">>]

\* the first element of s that satisfies the test, else the default
FirstIn(s, ok, default) ==
    IF \E i \in 1..Len(s) : s[i] \in ok
    THEN s[CHOOSE i \in 1..Len(s) : s[i] \in ok /\ \A j \in 1..(i - 1) : s[j] \notin ok]
    ELSE default

_determine_primary_category(interests, learning_style, traits) ==
    IF interests # <<>> /\ interests[1] \in DOMAIN PATHWAY_COURSES
    THEN interests[1]
    ELSE IF learning_style \in DOMAIN learning_style_mappings
    THEN FirstIn(Slice(interests, 1, Len(interests)),
                 Range(learning_style_mappings[learning_style]),
                 learning_style_mappings[learning_style][1])
    ELSE IF traits # <<>> /\ traits[1] \in DOMAIN trait_mappings
    THEN trait_mappings[traits[1]][1]
    ELSE "tech"

_determine_secondary_category_any(primary_category, interests, learning_style, traits) ==
    IF \E i \in 1..Len(interests) : interests[i] \in DOMAIN PATHWAY_COURSES
    THEN FirstIn(interests, DOMAIN PATHWAY_COURSES, "")
    ELSE IF learning_style \in DOMAIN learning_style_mappings
    THEN learning_style_mappings[learning_style][1]
    ELSE IF traits # <<>> /\ traits[1] \in DOMAIN trait_mappings
    THEN trait_mappings[traits[1]][1]
    ELSE CATEGORIES[1]

_determine_secondary_category(primary_category, interests, learning_style, traits) ==
    IF \E i \in 1..Len(interests) :
            interests[i] \in DOMAIN PATHWAY_COURSES /\ interests[i] # primary_category
    THEN FirstIn(interests, DOMAIN PATHWAY_COURSES \ {primary_category}, "")
    ELSE IF learning_style \in DOMAIN learning_style_mappings
            /\ Range(learning_style_mappings[learning_style]) # {primary_category}
    THEN FirstIn(learning_style_mappings[learning_style],
                 Range(learning_style_mappings[learning_style]) \ {primary_category}, "")
    ELSE IF traits # <<>> /\ traits[1] \in DOMAIN trait_mappings
            /\ Range(trait_mappings[traits[1]]) # {primary_category}
    THEN FirstIn(trait_mappings[traits[1]],
                 Range(trait_mappings[traits[1]]) \ {primary_category}, "")
    ELSE FirstIn(CATEGORIES, Range(CATEGORIES) \ {primary_category}, primary_category)

NotAvailable == PathwayCourse("N/A", <<>>)

AgeInRange(course, age) ==
    /\ Len(course.age_range) = 2
    /\ course.age_range[1] <= age
    /\ age <= course.age_range[2]

\* Python's None in a course slot
None == PathwayCourse("None", <<>>)

\* self.courses.get(category, {}).get(level, [])
_available_courses(category, level) ==
    IF category \in DOMAIN PATHWAY_COURSES /\ level \in DOMAIN PATHWAY_COURSES[category]
    THEN PATHWAY_COURSES[category][level]
    ELSE <<>>

_suitable_courses(available_courses, student_age) ==
    SelectSeq(available_courses, LAMBDA course : AgeInRange(course, student_age))

\* the selection without the fallback to the first available course
_first_suitable_strict(available_courses, suitable_courses) ==
    IF suitable_courses # <<>> THEN suitable_courses[1] ELSE None

_first_suitable(available_courses, suitable_courses) ==
    IF suitable_courses = <<>> /\ available_courses # <<>> THEN available_courses[1]
    ELSE IF suitable_courses # <<>> THEN suitable_courses[1]
    ELSE None

_select_course(category, level, student_age) ==
    IF _available_courses(category, level) = <<>> THEN NotAvailable
    ELSE _first_suitable(_available_courses(category, level),
                         _suitable_courses(_available_courses(category, level),
                                           student_age))

_pathway(primary_category, secondary_category, student_age) ==
    [primary_category |-> primary_category,
     secondary_category |-> secondary_category,
     step1 |-> [primary_course |-> _select_course(primary_category, "entry", student_age),
                complementary_course |->
                    _select_course(secondary_category, "entry", student_age)],
     step2 |-> [course |-> _select_course(primary_category, "intermediate", student_age)],
     step3 |-> [course |-> _select_course(primary_category, "advanced", student_age)]]

_pathway_from(primary_category, student_age, analysis_results) ==
    _pathway(primary_category,
             _determine_secondary_category(primary_category, analysis_results.top_interests,
                                           analysis_results.primary,
                                           analysis_results.top_traits),
             student_age)

generate_pathway(student_age, analysis_results) ==
    _pathway_from(_determine_primary_category(analysis_results.top_interests,
                                              analysis_results.primary,
                                              analysis_results.top_traits),
                  student_age, analysis_results)

(***************************************************************************)
(* data/career_advisor.py: CareerAffinityAdvisor (category selection)      *)
(***************************************************************************)
\* the keys of self.career_paths, in order
CAREER_PATHS == <<"tech", "arts", "entrepreneurship", "science", "language">>

\* the advisor's own copies of the two tables (the same literal in
\* _determine_primary_category and in _determine_secondary_categories)
career_learning_style_mappings ==
    [visual      |-> <<"arts", "tech">>,
     auditory    |-> <<"language", "science">>,
     kinesthetic |-> <<"tech", "science">>,
     logical     |-> <<"science", "tech">>,
     social      |-> <<"entrepreneurship", "language">>,
     independent |-> <<"science", "arts">>]

career_trait_mappings ==
    [creative      |-> <<"arts", "language">>,
     analytical    |-> <<"science", "tech">>,
     persistent    |-> <<"tech", "science">>,
     leadership    |-> <<"entrepreneurship", "language">>,
     collaborative |-> <<"entrepreneurship", "language">>,
     organized     |-> <<"science", "entrepreneurship">>]

\* CareerAffinityAdvisor._determine_primary_category
career_determine_primary_category(interests, learning_style, traits) ==
    IF interests # <<>> /\ interests[1] \in Range(CAREER_PATHS)
    THEN interests[1]
    ELSE IF learning_style \in DOMAIN career_learning_style_mappings
    THEN FirstIn(Slice(interests, 1, Len(interests)),
                 Range(career_learning_style_mappings[learning_style]),
                 career_learning_style_mappings[learning_style][1])
    ELSE IF traits # <<>> /\ traits[1] \in DOMAIN career_trait_mappings
    THEN career_trait_mappings[traits[1]][1]
    ELSE "tech"

\* append to a list the elements of s that are not excluded and not yet in it
RECURSIVE AppendNew(_, _, _)
AppendNew(list, s, excluded) ==
    IF s = <<>> THEN list
    ELSE AppendNew(IF Head(s) \in excluded \/ Head(s) \in Range(list)
                   THEN list ELSE Append(list, Head(s)),
                   Tail(s), excluded)

\* the categories every mapped trait of the list names, in order
RECURSIVE TraitCategories(_)
TraitCategories(traits) ==
    IF traits = <<>> THEN <<>>
    ELSE (IF Head(traits) \in DOMAIN career_trait_mappings
          THEN career_trait_mappings[Head(traits)] ELSE <<>>)
         \o TraitCategories(Tail(traits))

\* a list that came out empty gets the first category other than the primary
_at_least_one(secondary_categories, primary_category) ==
    IF secondary_categories # <<>> THEN secondary_categories
    ELSE Slice(SelectSeq(CAREER_PATHS, LAMBDA c : c # primary_category), 0, 1)

\* the secondary categories with the trait categories ahead of the interests
_determine_secondary_categories_traits_first(primary_category, interests, learning_style, traits) ==
  _at_least_one(
    AppendNew(
        AppendNew(
            AppendNew(<<>>, TraitCategories(traits), {primary_category}),
            SelectSeq(interests, LAMBDA i : i \in Range(CAREER_PATHS)),
            {primary_category}),
        IF learning_style \in DOMAIN career_learning_style_mappings
        THEN career_learning_style_mappings[learning_style] ELSE <<>>,
        {primary_category}),
    primary_category)

_determine_secondary_categories(primary_category, interests, learning_style, traits) ==
  _at_least_one(
    AppendNew(
        AppendNew(
            AppendNew(<<>>, SelectSeq(interests, LAMBDA i : i \in Range(CAREER_PATHS)),
                      {primary_category}),
            IF learning_style \in DOMAIN career_learning_style_mappings
            THEN career_learning_style_mappings[learning_style] ELSE <<>>,
            {primary_category}),
        TraitCategories(traits), {primary_category}),
    primary_category)

\* primary_field is the category itself here, the code returns its title;
\* secondary_fields are the categories the careers are selected from
_career_affinities(primary_category, analysis_results) ==
    [primary_field |-> primary_category,
     secondary_fields |->
        Slice(_determine_secondary_categories(primary_category,
                                              analysis_results.top_interests,
                                              analysis_results.primary,
                                              analysis_results.top_traits), 0, 2)]

generate_career_affinities(analysis_results) ==
    _career_affinities(
        career_determine_primary_category(analysis_results.top_interests,
                                          analysis_results.primary,
                                          analysis_results.top_traits),
        analysis_results)

(***************************************************************************)
(* data/course_recommender.py: CourseRecommender                           *)
(***************************************************************************)
\* a course without the key "personalized_benefit"
NoBenefit == [base |-> "", style |-> "", trait |-> ""]

Course(id, age_range, learning_styles, traits, popularity) ==
    [id |-> id, age_range |-> age_range, learning_styles |-> learning_styles,
     traits |-> traits, popularity |-> popularity, personalized_benefit |-> NoBenefit]

COURSES_INIT ==
    [tech |-> <<
        Course("TECH101", <<8, 14>>, <<"visual", "logical", "kinesthetic">>, <<"analytical", "persistent", "creative">>, 95),
        Course("TECH102", <<9, 16>>, <<"kinesthetic", "logical", "visual">>, <<"analytical", "persistent", "creative">>, 90),
        Course("TECH201", <<12, 18>>, <<"logical", "visual", "independent">>, <<"analytical", "persistent", "organized">>, 88),
        Course("TECH202", <<13, 18>>, <<"visual", "logical", "independent">>, <<"creative", "analytical", "organized">>, 85),
        Course("TECH301", <<14, 18>>, <<"logical", "visual", "independent">>, <<"analytical", "persistent", "organized">>, 92) >>,
     arts |-> <<
        Course("ARTS101", <<8, 16>>, <<"visual", "kinesthetic", "independent">>, <<"creative", "persistent", "organized">>, 88),
        Course("ARTS102", <<9, 16>>, <<"visual", "kinesthetic", "creative">>, <<"creative", "persistent", "organized">>, 85),
        Course("ARTS201", <<12, 18>>, <<"visual", "logical", "independent">>, <<"creative", "analytical", "organized">>, 82),
        Course("ARTS301", <<14, 18>>, <<"visual", "logical", "kinesthetic">>, <<"creative", "analytical", "persistent">>, 80) >>,
     entrepreneurship |-> <<
        Course("BIZ101", <<10, 14>>, <<"social", "kinesthetic", "auditory">>, <<"leadership", "creative", "collaborative">>, 85),
        Course("BIZ102", <<11, 16>>, <<"visual", "kinesthetic", "social">>, <<"creative", "analytical", "collaborative">>, 80),
        Course("BIZ201", <<13, 18>>, <<"logical", "social", "independent">>, <<"leadership", "analytical", "organized">>, 78),
        Course("BIZ301", <<15, 18>>, <<"social", "logical", "independent">>, <<"leadership", "persistent", "creative">>, 88) >>,
     science |-> <<
        Course("SCI101", <<8, 12>>, <<"kinesthetic", "logical", "visual">>, <<"analytical", "persistent", "creative">>, 86),
        Course("SCI102", <<9, 14>>, <<"kinesthetic", "visual", "social">>, <<"analytical", "persistent", "collaborative">>, 82),
        Course("SCI201", <<12, 16>>, <<"kinesthetic", "logical", "visual">>, <<"analytical", "persistent", "creative">>, 78),
        Course("SCI301", <<14, 18>>, <<"logical", "independent", "visual">>, <<"analytical", "persistent", "organized">>, 75) >>,
     language |-> <<
        Course("LANG101", <<8, 14>>, <<"auditory", "visual", "independent">>, <<"creative", "organized", "persistent">>, 84),
        Course("LANG102", <<10, 16>>, <<"auditory", "social", "kinesthetic">>, <<"leadership", "collaborative", "persistent">>, 80),
        Course("LANG201", <<12, 18>>, <<"visual", "auditory", "independent">>, <<"creative", "analytical", "organized">>, 82),
        Course("LANG301", <<14, 18>>, <<"visual", "independent", "auditory">>, <<"creative", "organized", "persistent">>, 78) >>]

CoursesOf(catalog, category) ==
    IF category \in DOMAIN catalog THEN catalog[category] ELSE <<>>

\* the courses of the interests that are neither pathway category
RECURSIVE _interest_courses(_, _, _, _)
_interest_courses(catalog, interests, primary_category, secondary_category) ==
    IF interests = <<>> THEN <<>>
    ELSE (IF Head(interests) \notin {primary_category, secondary_category}
          THEN CoursesOf(catalog, Head(interests)) ELSE <<>>)
         \o _interest_courses(catalog, Tail(interests), primary_category,
                              secondary_category)

_potential_courses(catalog, interests, primary_category, secondary_category) ==
    CoursesOf(catalog, primary_category)
    \o (IF secondary_category # primary_category
        THEN CoursesOf(catalog, secondary_category) ELSE <<>>)
    \o _interest_courses(catalog, interests, primary_category, secondary_category)

_age_appropriate(potential_courses, student_age) ==
    IF \E i \in 1..Len(potential_courses) : AgeInRange(potential_courses[i], student_age)
    THEN SelectSeq(potential_courses, LAMBDA c : AgeInRange(c, student_age))
    ELSE potential_courses

\* the category whose list holds a course of this id, "" for None
_course_category(catalog, course_id) ==
    FirstIn(CATEGORIES,
            {c \in DOMAIN catalog : \E i \in 1..Len(catalog[c]) : catalog[c][i].id = course_id},
            "")

\* the points with the rank counted from one: 7, 4, 1
_trait_points_from_one(course_traits, traits) ==
    (IF Len(traits) >= 1 /\ traits[1] \in Range(course_traits) THEN 7 ELSE 0)
    + (IF Len(traits) >= 2 /\ traits[2] \in Range(course_traits) THEN 4 ELSE 0)
    + (IF Len(traits) >= 3 /\ traits[3] \in Range(course_traits) THEN 1 ELSE 0)

\* the points a list of traits earns: 10, 7, 4 for the first three
_trait_points(course_traits, traits) ==
    (IF Len(traits) >= 1 /\ traits[1] \in Range(course_traits) THEN 10 ELSE 0)
    + (IF Len(traits) >= 2 /\ traits[2] \in Range(course_traits) THEN 7 ELSE 0)
    + (IF Len(traits) >= 3 /\ traits[3] \in Range(course_traits) THEN 4 ELSE 0)

_interest_points(course_category, interests) ==
    IF course_category \in Range(Slice(interests, 0, 1)) THEN 20
    ELSE IF course_category \in Range(Slice(interests, 1, 2)) THEN 15
    ELSE IF course_category \in Range(Slice(interests, 2, Len(interests))) THEN 10
    ELSE 0

\* ten times the score of the code, which adds popularity / 10 to a whole
\* number of points: the order of the scores is the order of these integers
_calculate_course_fit_score(catalog, course, primary_style, secondary_styles, traits, interests) ==
    10 * ((IF primary_style \in Range(course.learning_styles) THEN 30 ELSE 0)
          + 5 * Cardinality({i \in 1..Len(secondary_styles) :
                                secondary_styles[i] \in Range(course.learning_styles)})
          + _trait_points(course.traits, traits)
          + _interest_points(_course_category(catalog, course.id), interests))
    + course.popularity

\* the pairs left in the order they were scored in
SortByScore_unsorted(scored) == scored

\* list.sort(key = ..., reverse = True) over (course, score) pairs: stable,
\* the first of the pairs with the greatest score comes first
RECURSIVE SortByScore(_)
SortByScore(scored) ==
    IF scored = <<>> THEN <<>>
    ELSE <<scored[CHOOSE i \in 1..Len(scored) :
                    /\ \A j \in 1..Len(scored) : scored[j].score <= scored[i].score
                    /\ \A j \in 1..(i - 1) : scored[j].score < scored[i].score]>>
         \o SortByScore(RemoveAt(scored,
                CHOOSE i \in 1..Len(scored) :
                    /\ \A j \in 1..Len(scored) : scored[j].score <= scored[i].score
                    /\ \A j \in 1..(i - 1) : scored[j].score < scored[i].score))

_scored_courses(catalog, age_appropriate_courses, analysis_results) ==
    [i \in 1..Len(age_appropriate_courses) |->
        [course |-> age_appropriate_courses[i],
         score |-> _calculate_course_fit_score(catalog, age_appropriate_courses[i],
                        analysis_results.primary, analysis_results.secondary,
                        analysis_results.top_traits, analysis_results.top_interests)]]

AllCourses(catalog) ==
    catalog.tech \o catalog.arts \o catalog.entrepreneurship \o catalog.science
    \o catalog.language

_by_popularity(additional_courses) ==
    [i \in 1..Len(additional_courses) |->
        [course |-> additional_courses[i], score |-> additional_courses[i].popularity]]

\* the ids of the recommended courses: the list holds the catalog's own dicts
_ids(scored) == [i \in 1..Len(scored) |-> scored[i].course.id]

\* the top-up without the age filter
_top_up_any_age(catalog, top_courses, student_age, count) ==
    IF Len(top_courses) >= count THEN top_courses
    ELSE top_courses
         \o Slice(_ids(SortByScore(_by_popularity(
                SelectSeq(AllCourses(catalog),
                          LAMBDA c : c.id \notin Range(top_courses))))),
                  0, count - Len(top_courses))

_top_up(catalog, top_courses, student_age, count) ==
    IF Len(top_courses) >= count THEN top_courses
    ELSE top_courses
         \o Slice(_ids(SortByScore(_by_popularity(
                SelectSeq(AllCourses(catalog),
                          LAMBDA c : c.id \notin Range(top_courses)
                                     /\ AgeInRange(c, student_age))))),
                  0, count - Len(top_courses))

\* the keys of style_benefits and of trait_benefits
style_benefits == {"visual", "auditory", "kinesthetic", "logical", "social", "independent"}
trait_benefits ==
    {"creative", "analytical", "persistent", "leadership", "collaborative", "organized"}

\* the statement is the course's own benefits text, a sentence for the style
\* and a sentence for the first trait ("" where the table has none)
_generate_personalized_benefit(course, learning_style, traits) ==
    [base |-> course.id,
     style |-> IF learning_style \in style_benefits THEN learning_style ELSE "",
     trait |-> IF traits # <<>> /\ traits[1] \in trait_benefits THEN traits[1] ELSE ""]

\* the loop that writes course["personalized_benefit"]: the courses of
\* top_courses are the dicts of self.courses, so the write lands in the catalog
_personalize(catalog, top_courses, analysis_results) ==
    [ret |-> top_courses,
     courses |->
        [c \in DOMAIN catalog |->
            [i \in 1..Len(catalog[c]) |->
                IF catalog[c][i].id \in Range(top_courses)
                THEN [catalog[c][i] EXCEPT !.personalized_benefit =
                        _generate_personalized_benefit(catalog[c][i],
                            analysis_results.primary, analysis_results.top_traits)]
                ELSE catalog[c][i]]]]

DefaultCount == 3

\* recommend_courses(student_info, analysis_results, pathway_results) with
\* self.courses holding catalog: ret is the list returned, as the ids of the
\* catalog dicts it refers to, courses the catalog afterwards
recommend_courses(catalog, student_age, analysis_results, pathway_results) ==
    _personalize(
        catalog,
        _top_up(catalog,
                Slice(_ids(SortByScore(_scored_courses(
                        catalog,
                        _age_appropriate(
                            _potential_courses(catalog, analysis_results.top_interests,
                                               pathway_results.primary_category,
                                               pathway_results.secondary_category),
                            student_age),
                        analysis_results))),
                      0, DefaultCount),
                student_age, DefaultCount),
        analysis_results)

\* the course dict an id of a returned list refers to
CourseById(catalog, id) ==
    AllCourses(catalog)[CHOOSE i \in 1..Len(AllCourses(catalog)) :
                            AllCourses(catalog)[i].id = id]

\* what a returned list of courses reads as, given the catalog's contents
Deref(catalog, refs) == [i \in 1..Len(refs) |-> CourseById(catalog, refs[i])]

(***************************************************************************)
(* Python floats (IEEE 754 doubles), as math_pathway.py and global_exams.py *)
(* compute with them.  A double x of the range met there, 0 or             *)
(* 0.0625 <= x < 16, is the pair <<k, d>> with                             *)
(* x = (k * 2^56 + d) / (5 * 2^57): k counts tenths, d is the distance     *)
(* from k / 10 in units of 1 / (5 * 2^57).  A double of the binade         *)
(* [2^b, 2^(b+1)) is a multiple of 5 * 2^(b+5) of these units, and         *)
(* 2^56 = 1536 (mod 2560), so rounding to nearest, ties to even, needs     *)
(* 1536 * k + d modulo 2560 only.                                          *)
(***************************************************************************)
\* the spacing of the doubles around (k, d), in units of 1 / (5 * 2^57)
FloatUnit(k, d) ==
    IF k > 80 \/ (k = 80 /\ d >= 0) THEN 1280
    ELSE IF k > 40 \/ (k = 40 /\ d >= 0) THEN 640
    ELSE IF k > 20 \/ (k = 20 /\ d >= 0) THEN 320
    ELSE IF k > 10 \/ (k = 10 /\ d >= 0) THEN 160
    ELSE IF k > 5 \/ (k = 5 /\ d >= 0) THEN 80
    ELSE IF k >= 3 THEN 40
    ELSE IF k >= 2 THEN 20
    ELSE 10

\* d moved by the remainder r of the value modulo the spacing u: down when
\* below half, up when above, to the even multiple on a tie (m2 is the value
\* modulo 2 * u)
FloatNearest(d, u, r, m2) ==
    IF 2 * r < u THEN d - r
    ELSE IF 2 * r > u THEN d + u - r
    ELSE IF m2 >= u THEN d + u - r
    ELSE d - r

\* the double nearest to the real number (k, d)
FloatRound(k, d) ==
    [k |-> k,
     d |-> FloatNearest(d, FloatUnit(k, d),
                        ((1536 * k + d) % 2560) % FloatUnit(k, d),
                        ((1536 * k + d) % 2560) % (2 * FloatUnit(k, d)))]

\* x + y, and n * x for an int n: the exact result, rounded once
FloatAdd(x, y) == FloatRound(x.k + y.k, x.d + y.d)
FloatMul(n, x) == FloatRound(n * x.k, n * x.d)
FloatGreater(x, y) == x.k > y.k \/ (x.k = y.k /\ x.d > y.d)

\* int(x) of a float x >= 0
FloatFloor(x) == IF x.k % 10 = 0 /\ x.d < 0 THEN (x.k \div 10) - 1 ELSE x.k \div 10

(***************************************************************************)
(* data/math_pathway.py: MathematicsPathwayGenerator (type and level)      *)
(***************************************************************************)
\* the keys of pathway_scores, in order
PATHWAY_TYPES == <<"abacus", "vedic", "integrated">>

style_scores ==
    [visual      |-> [abacus |-> 3, vedic |-> 1, integrated |-> 2],
     kinesthetic |-> [abacus |-> 3, vedic |-> 1, integrated |-> 2],
     logical     |-> [abacus |-> 1, vedic |-> 3, integrated |-> 2],
     independent |-> [abacus |-> 2, vedic |-> 2, integrated |-> 2],
     auditory    |-> [abacus |-> 0, vedic |-> 2, integrated |-> 2],
     social      |-> [abacus |-> 1, vedic |-> 1, integrated |-> 3]]

trait_scores ==
    [analytical    |-> [abacus |-> 2, vedic |-> 3, integrated |-> 2],
     creative      |-> [abacus |-> 1, vedic |-> 2, integrated |-> 3],
     persistent    |-> [abacus |-> 3, vedic |-> 2, integrated |-> 2],
     leadership    |-> [abacus |-> 1, vedic |-> 1, integrated |-> 3],
     collaborative |-> [abacus |-> 1, vedic |-> 1, integrated |-> 3],
     organized     |-> [abacus |-> 3, vedic |-> 2, integrated |-> 2]]

\* pathway_scores after the primary style: ints, n being (10 * n, 0)
_primary_scores(primary_style) ==
    [p \in Range(PATHWAY_TYPES) |->
        FloatRound(10 * (IF primary_style \in DOMAIN style_scores
                         THEN style_scores[primary_style][p] ELSE 0), 0)]

\* the loop over the secondary styles: += score / 2, n / 2 being (5 * n, 0)
RECURSIVE _secondary_scores(_, _)
_secondary_scores(pathway_scores, secondary_styles) ==
    IF secondary_styles = <<>> THEN pathway_scores
    ELSE _secondary_scores(
            IF Head(secondary_styles) \in DOMAIN style_scores
            THEN [p \in Range(PATHWAY_TYPES) |->
                    FloatAdd(pathway_scores[p],
                             FloatRound(5 * style_scores[Head(secondary_styles)][p], 0))]
            ELSE pathway_scores,
            Tail(secondary_styles))

\* weight = 1.0 if i == 0 else 0.7 if i == 1 else 0.4: the doubles nearest
\* to 10, 7 and 4 tenths
_weight(i) == FloatRound(IF i = 0 THEN 10 ELSE IF i = 1 THEN 7 ELSE 4, 0)

\* the loop over enumerate(top_traits[:3]), from index i: += score * weight
RECURSIVE _trait_scores(_, _, _)
_trait_scores(pathway_scores, top_traits, i) ==
    IF i >= Len(top_traits) \/ i >= 3 THEN pathway_scores
    ELSE _trait_scores(
            IF top_traits[i + 1] \in DOMAIN trait_scores
            THEN [p \in Range(PATHWAY_TYPES) |->
                    FloatAdd(pathway_scores[p],
                             FloatMul(trait_scores[top_traits[i + 1]][p], _weight(i)))]
            ELSE pathway_scores,
            top_traits, i + 1)

\* the loop over pathway_scores.items() from the type at position i
RECURSIVE _best_pathway(_, _, _, _)
_best_pathway(pathway_scores, i, max_score, best_pathway) ==
    IF i > Len(PATHWAY_TYPES) THEN best_pathway
    ELSE IF FloatGreater(pathway_scores[PATHWAY_TYPES[i]], max_score)
    THEN _best_pathway(pathway_scores, i + 1, pathway_scores[PATHWAY_TYPES[i]],
                       PATHWAY_TYPES[i])
    ELSE _best_pathway(pathway_scores, i + 1, max_score, best_pathway)

_pathway_scores(primary_style, secondary_styles, top_traits) ==
    _trait_scores(_secondary_scores(_primary_scores(primary_style), secondary_styles),
                  top_traits, 0)

_determine_math_pathway_type(primary_style, secondary_styles, top_traits) ==
    _best_pathway(_pathway_scores(primary_style, secondary_styles, top_traits),
                  1, FloatRound(0, 0), "integrated")

\* the level index with the band limits excluded from their bands
_determine_level_index_exclusive(age) ==
    IF age < 8 THEN 0
    ELSE IF age < 11 THEN 1
    ELSE IF age < 14 THEN 2
    ELSE 3

_determine_level_index(age) ==
    IF age <= 8 THEN 0
    ELSE IF age <= 11 THEN 1
    ELSE IF age <= 14 THEN 2
    ELSE 3

(***************************************************************************)
(* data/math_pathway.py: MathematicsPathwayGenerator (courses and journey) *)
(***************************************************************************)
LEVEL_NAMES == <<"Beginner", "Intermediate", "Advanced", "Expert">>

\* str.lower() on the level names
Lower(name) ==
    CASE name = "Beginner" -> "beginner"
      [] name = "Intermediate" -> "intermediate"
      [] name = "Advanced" -> "advanced"
      [] name = "Expert" -> "expert"
      [] OTHER -> name

\* a level dict of a pathway: advanced counts the " (Advanced)" suffixes of
\* its title, course is the "course" key ("None" while the dict has none)
MathLevel(pathway, level, advanced) ==
    [pathway |-> pathway, level |-> level, advanced |-> advanced, course |-> "None"]

\* self.math_pathways.get(pathway_type, {}).get("levels", [])
_pathway_levels(pathway_type) ==
    IF pathway_type \in Range(PATHWAY_TYPES)
    THEN [i \in 1..Len(LEVEL_NAMES) |-> MathLevel(pathway_type, LEVEL_NAMES[i], 0)]
    ELSE <<>>

\* a course dict: its level is the sequence of the names its "level" string
\* joins with "-"
MathCourse(id, pathway, level, min_age, max_age) ==
    [id |-> id, pathway |-> pathway, level |-> level, min_age |-> min_age,
     max_age |-> max_age]

MATH_COURSES ==
    [elementary |->
        <<MathCourse("MATH101", "abacus", <<"Beginner">>, 6, 8),
          MathCourse("MATH102", "abacus", <<"Beginner", "Intermediate">>, 7, 9),
          MathCourse("MATH103", "vedic", <<"Beginner">>, 8, 10),
          MathCourse("MATH104", "integrated", <<"Beginner">>, 7, 10)>>,
     middle |->
        <<MathCourse("MATH201", "abacus", <<"Intermediate">>, 8, 12),
          MathCourse("MATH202", "abacus", <<"Intermediate", "Advanced">>, 9, 13),
          MathCourse("MATH203", "vedic", <<"Intermediate">>, 10, 14),
          MathCourse("MATH204", "integrated", <<"Intermediate">>, 10, 13)>>,
     high |->
        <<MathCourse("MATH301", "abacus", <<"Advanced">>, 11, 16),
          MathCourse("MATH302", "abacus", <<"Expert">>, 14, 18),
          MathCourse("MATH303", "vedic", <<"Advanced">>, 13, 18),
          MathCourse("MATH304", "integrated", <<"Advanced", "Expert">>, 14, 18)>>]

_math_age_group(age) == IF age <= 10 THEN "elementary" ELSE IF age <= 13 THEN "middle" ELSE "high"

\* "beginner" in course_level, and so on for the level of the index
_level_appropriate(course, level_index) ==
    /\ level_index \in 0..3
    /\ \E i \in 1..Len(course.level) :
            Lower(course.level[i]) = Lower(LEVEL_NAMES[level_index + 1])

_pathway_matches(age_group_courses, pathway_type, level_index) ==
    SelectSeq(age_group_courses,
              LAMBDA course : course.pathway = pathway_type
                              /\ _level_appropriate(course, level_index))

_integrated_fallback(age_group_courses, recommended, pathway_type) ==
    IF recommended = <<>> /\ pathway_type # "integrated"
    THEN SelectSeq(age_group_courses, LAMBDA course : course.pathway = "integrated")
    ELSE recommended

_age_fallback(age_group_courses, recommended, age) ==
    IF recommended = <<>>
    THEN SelectSeq(age_group_courses,
                   LAMBDA course : course.min_age <= age /\ age <= course.max_age)
    ELSE recommended

_get_recommended_courses(age, pathway_type, level_index) ==
    Slice(_age_fallback(MATH_COURSES[_math_age_group(age)],
                        _integrated_fallback(MATH_COURSES[_math_age_group(age)],
                            _pathway_matches(MATH_COURSES[_math_age_group(age)],
                                             pathway_type, level_index),
                            pathway_type),
                        age),
          0, 3)

\* pathway_levels[level_index:level_index + 3]
_relevant_levels(pathway_type, level_index) ==
    Slice(_pathway_levels(pathway_type), level_index, level_index + 3)

\* the loop over the integrated levels from position i: a level whose name
\* no relevant level carries is appended, until there are three
RECURSIVE _add_integrated(_, _)
_add_integrated(relevant_levels, i) ==
    IF i > Len(_pathway_levels("integrated")) THEN relevant_levels
    ELSE IF \A j \in 1..Len(relevant_levels) :
                relevant_levels[j].level # _pathway_levels("integrated")[i].level
    THEN IF Len(relevant_levels) + 1 >= 3
         THEN Append(relevant_levels, _pathway_levels("integrated")[i])
         ELSE _add_integrated(Append(relevant_levels, _pathway_levels("integrated")[i]), i + 1)
    ELSE _add_integrated(relevant_levels, i + 1)

_extend_levels_borrowing_only(pathway_type, relevant_levels) ==
    IF pathway_type # "integrated" THEN _add_integrated(relevant_levels, 1)
    ELSE relevant_levels

\* one pass through the body of "while len(relevant_levels) < 3"
_extend_levels(pathway_type, relevant_levels) ==
    IF pathway_type # "integrated" THEN _add_integrated(relevant_levels, 1)
    ELSE IF relevant_levels # <<>>
    THEN Append(relevant_levels,
                [relevant_levels[Len(relevant_levels)] EXCEPT !.advanced = @ + 1])
    ELSE relevant_levels

\* course["level"].lower() in step["level"].lower(): the course's level
\* string is a part of the step's, which is one name
_level_within(course, step) ==
    Len(course.level) = 1 /\ Lower(course.level[1]) = Lower(step.level)

\* the step at position i (from 0) with the course matched to it
_step_with_course(step, i, recommended_courses) ==
    IF \E c \in 1..Len(recommended_courses) : _level_within(recommended_courses[c], step)
    THEN [step EXCEPT !.course =
            recommended_courses[CHOOSE c \in 1..Len(recommended_courses) :
                /\ _level_within(recommended_courses[c], step)
                /\ \A b \in 1..(c - 1) : ~_level_within(recommended_courses[b], step)].id]
    ELSE IF recommended_courses # <<>> /\ i < Len(recommended_courses)
    THEN [step EXCEPT !.course = recommended_courses[i + 1].id]
    ELSE step

\* relevant_levels[:3], every step with its course
_journey_steps(relevant_levels, recommended_courses) ==
    [i \in 1..Len(Slice(relevant_levels, 0, 3)) |->
        _step_with_course(relevant_levels[i], i - 1, recommended_courses)]

(***************************************************************************)
(* data/global_exams.py: GlobalExamRecommender (selection of the exams)    *)
(***************************************************************************)
\* an exam: its name and the interests (of those a questionnaire maps to)
\* whose lowercase string occurs in its lowercase name or description
Exam(name, mentions) == [name |-> name, mentions |-> mentions]

\* self.examinations: per age group the categories in order
EXAMINATIONS ==
    [elementary |-> <<
        [category |-> "academic", exams |-> <<
            Exam("International Schools Assessment (ISA)", {"math", "science"}),
            Exam("ASSET (Assessment of Scholastic Skills through Educational Testing)", {}),
            Exam("Cambridge Primary Checkpoint", {"math", "science"}) >>],
        [category |-> "aptitude", exams |-> <<
            Exam("Cognitive Abilities Test (CogAT)", {}),
            Exam("Naglieri Nonverbal Ability Test (NNAT)", {}),
            Exam("Otis-Lennon School Ability Test (OLSAT)", {}) >>],
        [category |-> "competition", exams |-> <<
            Exam("International Mathematics Olympiad (IMO) - Elementary Level", {"math"}),
            Exam("International English Olympiad (IEO)", {"language"}),
            Exam("International Science Olympiad (ISO)", {"science"}),
            Exam("Math Kangaroo", {"math"}) >>],
        [category |-> "talent_search", exams |-> <<
            Exam("Johns Hopkins Center for Talented Youth (CTY)", {"academic"}),
            Exam("Duke Talent Identification Program (TIP)", {"academic"}) >>],
        [category |-> "certification", exams |-> <<
            Exam("Cambridge English: Young Learners (YLE)", {"language"}),
            Exam("DELF Prim", {"language"}) >>] >>,
     middle |-> <<
        [category |-> "academic", exams |-> <<
            Exam("International Schools Assessment (ISA)", {"math", "science"}),
            Exam("Cambridge Secondary 1 Checkpoint", {"math", "science"}),
            Exam("TIMSS (Trends in International Mathematics and Science Study)", {"math", "science"}) >>],
        [category |-> "aptitude", exams |-> <<
            Exam("Cognitive Abilities Test (CogAT)", {}),
            Exam("Secondary School Admission Test (SSAT)", {}),
            Exam("Independent School Entrance Examination (ISEE)", {}) >>],
        [category |-> "competition", exams |-> <<
            Exam("American Mathematics Competition 8 (AMC 8)", {"math"}),
            Exam("Math Counts", {"math"}),
            Exam("International Junior Science Olympiad (IJSO)", {"science"}),
            Exam("International Junior Math Olympiad (IJMO)", {"math"}) >>],
        [category |-> "talent_search", exams |-> <<
            Exam("Johns Hopkins Center for Talented Youth (CTY)", {"academic"}),
            Exam("Northwestern University's Midwest Academic Talent Search (NUMATS)", {"academic"}) >>],
        [category |-> "certification", exams |-> <<
            Exam("Cambridge English: Key (KET) for Schools", {"language"}),
            Exam("DELF Junior", {"language"}),
            Exam("Microsoft Office Specialist (MOS)", {}) >>] >>,
     high |-> <<
        [category |-> "academic", exams |-> <<
            Exam("PSAT/NMSQT (Preliminary SAT/National Merit Scholarship Qualifying Test)", {}),
            Exam("SAT (Scholastic Assessment Test)", {"math"}),
            Exam("ACT (American College Testing)", {"math", "science"}),
            Exam("Cambridge IGCSE", {}),
            Exam("International Baccalaureate (IB) Diploma Programme", {}) >>],
        [category |-> "aptitude", exams |-> <<
            Exam("Graduate Record Examinations (GRE)", {}),
            Exam("Graduate Management Admission Test (GMAT)", {}),
            Exam("Law School Admission Test (LSAT)", {}) >>],
        [category |-> "competition", exams |-> <<
            Exam("American Mathematics Competition (AMC 10/12)", {"math"}),
            Exam("International Mathematical Olympiad (IMO)", {"math"}),
            Exam("International Physics Olympiad (IPhO)", {}),
            Exam("International Chemistry Olympiad (IChO)", {}),
            Exam("International Olympiad in Informatics (IOI)", {}) >>],
        [category |-> "talent_search", exams |-> <<
            Exam("Research Science Institute (RSI)", {"science"}),
            Exam("Program in Mathematics for Young Scientists (PROMYS)", {"math"}) >>],
        [category |-> "certification", exams |-> <<
            Exam("Cambridge English: Advanced (CAE)", {"language"}),
            Exam("IELTS (International English Language Testing System)", {"language"}),
            Exam("TOEFL (Test of English as a Foreign Language)", {"academic", "language"}),
            Exam("AP (Advanced Placement) Exams", {}) >>] >>]

\* the weights in tenths
category_weights ==
    [visual      |-> [academic |-> 7, aptitude |-> 8, competition |-> 6,
                      talent_search |-> 7, certification |-> 6],
     auditory    |-> [academic |-> 8, aptitude |-> 7, competition |-> 5,
                      talent_search |-> 6, certification |-> 7],
     kinesthetic |-> [academic |-> 6, aptitude |-> 7, competition |-> 8,
                      talent_search |-> 7, certification |-> 6],
     logical     |-> [academic |-> 7, aptitude |-> 9, competition |-> 8,
                      talent_search |-> 8, certification |-> 6],
     social      |-> [academic |-> 7, aptitude |-> 6, competition |-> 7,
                      talent_search |-> 6, certification |-> 7],
     independent |-> [academic |-> 8, aptitude |-> 8, competition |-> 7,
                      talent_search |-> 8, certification |-> 7]]

interest_category_map ==
    [technology       |-> <<"certification", "competition">>,
     arts             |-> <<"talent_search", "certification">>,
     entrepreneurship |-> <<"certification", "academic">>,
     science          |-> <<"competition", "talent_search">>,
     language         |-> <<"certification", "academic">>,
     mathematics      |-> <<"competition", "aptitude">>]

\* the categories a trait of top_traits adds 0.1 to
trait_category_map ==
    [analytical |-> {"aptitude", "competition"},
     creative   |-> {"talent_search"},
     persistent |-> {"competition", "certification"},
     leadership |-> {"talent_search"}]

\* category_weights.get(primary_style, {... 0.7 ...})[category], in tenths
_base_weight(primary_style, category) ==
    IF primary_style \in DOMAIN category_weights
    THEN category_weights[primary_style][category]
    ELSE 7

\* how many times weights[category] += 0.1 runs: once per listed trait that
\* is in top_traits, once per element of top_interests that maps to it
_increments(category, top_traits, top_interests) ==
    Cardinality({t \in DOMAIN trait_category_map :
                    t \in Range(top_traits) /\ category \in trait_category_map[t]})
    + Cardinality({i \in 1..Len(top_interests) :
                    /\ top_interests[i] \in DOMAIN interest_category_map
                    /\ category \in Range(interest_category_map[top_interests[i]])})

\* weight += 0.1, n times
RECURSIVE _adjusted_weight(_, _)
_adjusted_weight(weight, n) ==
    IF n = 0 THEN weight
    ELSE _adjusted_weight(FloatAdd(weight, FloatRound(1, 0)), n - 1)

\* num_to_select = max(1, int(len(exams) * weight))
_num_to_select(exams, weight) ==
    IF FloatFloor(FloatMul(Len(exams), weight)) > 1
    THEN FloatFloor(FloatMul(Len(exams), weight))
    ELSE 1

\* the score of an exam, in halves: 1.0, and 0.5 more per element of
\* top_interests found in its name or description
_scored_exams(exams, top_interests) ==
    [i \in 1..Len(exams) |->
        [course |-> exams[i],
         score |-> 2 + Cardinality({j \in 1..Len(top_interests) :
                                        top_interests[j] \in exams[i].mentions})]]

\* scored_exams.sort(reverse=True) on (score, exam) tuples: two tuples of
\* equal score are ordered by their exams, which are dicts and have no
\* order, and a sort compares some two of the elements that tie
_sort_raises(scored_exams) ==
    \E i, j \in 1..Len(scored_exams) :
        i # j /\ scored_exams[i].score = scored_exams[j].score

_selected_exams(sorted_exams, num_to_select) ==
    [i \in 1..Min(num_to_select, Len(sorted_exams)) |-> sorted_exams[i].course]

\* the loop over age_group_exams.items() from the category at position i
RECURSIVE _select_from(_, _, _, _, _, _)
_select_from(age_group_exams, i, recommended, primary_style, top_traits, top_interests) ==
    IF i > Len(age_group_exams) THEN [err |-> "", recommended |-> recommended]
    ELSE IF _sort_raises(_scored_exams(age_group_exams[i].exams, top_interests))
    THEN [err |-> "TypeError", recommended |-> <<>>]
    ELSE _select_from(age_group_exams, i + 1,
            Append(recommended,
                   [category |-> age_group_exams[i].category,
                    exams |-> _selected_exams(
                        SortByScore(_scored_exams(age_group_exams[i].exams, top_interests)),
                        _num_to_select(age_group_exams[i].exams,
                            _adjusted_weight(
                                FloatRound(_base_weight(primary_style,
                                                        age_group_exams[i].category), 0),
                                _increments(age_group_exams[i].category, top_traits,
                                            top_interests))))]),
            primary_style, top_traits, top_interests)

_select_recommended_exams(age_group_exams, primary_style, top_traits, top_interests) ==
    _select_from(age_group_exams, 1, <<>>, primary_style, top_traits, top_interests)

_age_group(age) ==
    IF age <= 10 THEN "elementary" ELSE IF age <= 13 THEN "middle" ELSE "high"

\* recommend_examinations: the exception, or the selected exams per category
recommend_examinations(age, analysis_results) ==
    _select_recommended_exams(EXAMINATIONS[_age_group(age)], analysis_results.primary,
                              analysis_results.top_traits, analysis_results.top_interests)

(***************************************************************************)
(* main.py: ShiningStarDiagnosticSystem                                            *)
(***************************************************************************)
\* a dict is the set of its keys and, for student_info, the value of "age"
\* (an int or something else); None is NoInfo, which is falsy like {}
NoInfo == [keys |-> {}, age |-> IntAns(0)]
StudentInfo(keys, age) == [keys |-> keys, age |-> age]
ParentInfo(keys) == [keys |-> keys, age |-> IntAns(0)]

MinAge == 5
MaxAge == 18

\* "" when the check passes, else the exception raised
_validate_student_info(student_info) ==
    IF ~({"id", "name", "age"} \subseteq student_info.keys) THEN "ValueError"
    ELSE IF student_info.age.t # "int" \/ student_info.age.v < MinAge
            \/ student_info.age.v > MaxAge
    THEN "ValueError"
    ELSE ""

_validate_parent_info(parent_info) ==
    IF ~({"id", "name"} \subseteq parent_info.keys) THEN "ValueError"
    ELSE IF "email" \notin parent_info.keys /\ "phone" \notin parent_info.keys
    THEN "ValueError"
    ELSE ""

\* question ids are strings and answers ints or strings in every dict here
_validate_responses(responses) ==
    IF responses = <<>> THEN "ValueError" ELSE ""

\* the validations without the one of the student responses
_validate_info_only(student_info, student_responses, parent_info, parent_responses) ==
    IF _validate_student_info(student_info) # "" THEN _validate_student_info(student_info)
    ELSE IF parent_info.keys # {} /\ _validate_parent_info(parent_info) # ""
    THEN _validate_parent_info(parent_info)
    ELSE ""

\* the four validations, in the order of the code
_validate(student_info, student_responses, parent_info, parent_responses) ==
    IF _validate_student_info(student_info) # "" THEN _validate_student_info(student_info)
    ELSE IF _validate_responses(student_responses) # ""
    THEN _validate_responses(student_responses)
    ELSE IF parent_info.keys # {} /\ _validate_parent_info(parent_info) # ""
    THEN _validate_parent_info(parent_info)
    ELSE IF parent_responses # <<>> /\ _validate_responses(parent_responses) # ""
    THEN _validate_responses(parent_responses)
    ELSE ""

\* what process_student_assessment returns and leaves behind: trace lists the
\* stages the call started, course_recommendations is the list handed to the
\* reports, common and courses are the two mutable catalogs afterwards
Outcome(status, message, trace, course_recommendations, common, catalog) ==
    [result |-> [status |-> status, message |-> message, trace |-> trace,
                 course_recommendations |-> course_recommendations],
     common |-> common, courses |-> catalog]

NoComparison == [err |-> "", alignments |-> <<>>, differences |-> <<>>, insights |-> <<>>]

\* persistence, then delivery when there is a parent, then the success dict;
\* the file system and the delivery channels are taken to work
_recommended(parent_info, a, trace, rec) ==
    Outcome("success", "",
            trace \o <<"persist">>
                  \o (IF parent_info.keys # {} THEN <<"deliver">> ELSE <<>>),
            rec.ret, a.common, rec.courses)

_mapped(catalog, student_info, parent_info, a, trace, pathway_results) ==
    _recommended(parent_info, a, trace \o <<"career", "courses">>,
                 recommend_courses(catalog, student_info.age.v, a.ret, pathway_results))

_compared(catalog, student_info, parent_info, a, trace, parent_comparison) ==
    IF parent_comparison.err # ""
    THEN Outcome("error", parent_comparison.err, trace, <<>>, a.common, catalog)
    ELSE _mapped(catalog, student_info, parent_info, a, trace \o <<"pathway">>,
                 generate_pathway(student_info.age.v, a.ret))

_badged(catalog, student_info, parent_info, parent_responses, a, badges) ==
    IF badges.err # ""
    THEN Outcome("error", badges.err, <<"validate", "analyze", "badges">>, <<>>,
                 a.common, catalog)
    ELSE IF parent_responses # <<>>
    THEN _compared(catalog, student_info, parent_info, a,
                   <<"validate", "analyze", "badges", "compare">>,
                   compare_parent_responses(parent_responses, a.ret))
    ELSE _compared(catalog, student_info, parent_info, a,
                   <<"validate", "analyze", "badges">>, NoComparison)

\* the pipeline going on to the badges whatever the analyzer did
_analyzed_unchecked(catalog, student_info, parent_info, parent_responses, a) ==
    _badged(catalog, student_info, parent_info, parent_responses, a,
            generate_learning_badges(a.ret))

_analyzed(catalog, student_info, parent_info, parent_responses, a) ==
    IF a.ret.err # ""
    THEN Outcome("error", a.ret.err, <<"validate", "analyze">>, <<>>, a.common, catalog)
    ELSE _badged(catalog, student_info, parent_info, parent_responses, a,
                 generate_learning_badges(a.ret))

\* process_student_assessment: every exception of a stage ends the call in
\* the except clause, which returns status "error"
process_student_assessment(common, catalog, student_info, student_responses, parent_info, parent_responses) ==
    IF _validate(student_info, student_responses, parent_info, parent_responses) # ""
    THEN Outcome("error", "ValueError", <<"validate">>, <<>>, common, catalog)
    ELSE _analyzed(catalog, student_info, parent_info, parent_responses,
                   analyze_responses(common, student_responses, student_info.age.v))

(***************************************************************************)
(* Calls on the analyzer and the questionnaire, one input at a time.       *)
(***************************************************************************)
NoCall == [op |-> "none", val |-> AnalysisRaised("")]

\* analyzer.analyze_responses(input.responses, input.age)
AnalyzeReturns(r) ==
    /\ ret' = [op |-> "analyze_responses", val |-> r.ret]
    /\ first_ret' = IF first_ret.op = "none" THEN ret' ELSE first_ret
    /\ COMMON_QUESTIONS' = r.common

AnalyzeResponses ==
    /\ Len(history) < MaxCalls
    /\ AnalyzeReturns(analyze_responses(COMMON_QUESTIONS, input.responses, input.age))
    /\ history' = Append(history, "analyze_responses")
    /\ UNCHANGED <<courses, input, returned>>

\* the first analyze_responses call on the input
AnalyzeOnce == history = <<>> /\ AnalyzeResponses

OtherAges == {8, 12}

QuestionsReturned(age, g) ==
    /\ ret' = [op |-> "get_questions_for_age", val |-> [age |-> age, questions |-> g.ret]]
    /\ COMMON_QUESTIONS' = g.common

\* get_questions_for_age(age), for any age, between two analyzer calls
GetQuestionsForAge ==
    /\ Len(history) < MaxCalls
    /\ \E age \in OtherAges :
            QuestionsReturned(age, get_questions_for_age(COMMON_QUESTIONS, age))
    /\ history' = Append(history, "get_questions_for_age")
    /\ UNCHANGED <<courses, input, first_ret, returned>>

\* analyzer._calculate_dimension_score(input.responses, ids of a dimension)
CalculateDimensionScore ==
    /\ \E d \in DimensionNames :
            ret' = [op |-> "_calculate_dimension_score",
                    val |-> [dimension |-> d,
                             score |-> _calculate_dimension_score(input.responses,
                                                                  DIMENSIONS[d])]]
    /\ UNCHANGED <<COMMON_QUESTIONS, courses, input, first_ret, history, returned>>

NextAnalyze == AnalyzeResponses \/ GetQuestionsForAge

\* the state after the modules are imported and the components constructed
InitState ==
    /\ COMMON_QUESTIONS = COMMON_QUESTIONS_INIT
    /\ courses = COURSES_INIT
    /\ ret = NoCall
    /\ first_ret = NoCall
    /\ history = <<>>
    /\ returned = <<>>

Entries(q, answers) == {[q |-> q, a |-> a] : a \in answers}

\* answers to a sample of the questionnaire: learning-style, trait and interest
\* questions, band questions, an unknown id; indices in and out of range and
\* free text
GeneralEntries ==
    Entries("ls_1", {IntAns(0), IntAns(4)}) \cup Entries("ls_3", {IntAns(2)})
    \cup Entries("ps_1", {IntAns(0), IntAns(4), TextAns}) \cup Entries("in_1", {IntAns(4)})
    \cup Entries("mid_2", {IntAns(0)}) \cup Entries("high_3", {TextAns})
    \cup Entries("zz_9", {IntAns(0)})
GeneralAges == {4, 12, 16}

InitAnalyze ==
    /\ InitState
    /\ input \in [age : GeneralAges, responses : Dicts(GeneralEntries, MaxResponses)]

SpecAnalyze == InitAnalyze /\ [][NextAnalyze]_vars

\* integer answers to the questions the four dimensions read
DimensionEntries ==
    UNION {Entries(q, {IntAns(1), IntAns(2)}) :
            q \in {"ps_1", "mid_2", "high_2", "cr_1", "elem_3", "mid_3", "high_3"}}

InitDimension ==
    /\ InitState
    /\ input \in [age : {16}, responses : Dicts(DimensionEntries, MaxDimResponses)]

SpecDimension == InitDimension /\ [][CalculateDimensionScore]_vars

\* answers to the learning-style questions, mid_1 being one the age lacks
StyleEntries ==
    Entries("ls_1", {IntAns(0), IntAns(1)}) \cup Entries("ls_2", {IntAns(0), IntAns(1)})
    \cup Entries("ls_3", {IntAns(0), IntAns(1), IntAns(2)})
    \cup Entries("high_1", {IntAns(0), IntAns(2)}) \cup Entries("mid_1", {IntAns(1)})

InitStyle ==
    /\ InitState
    /\ input \in [age : {16}, responses : Dicts(StyleEntries, MaxStyleResponses)]

SpecStyle == InitStyle /\ [][AnalyzeOnce]_vars

\* answers to trait and interest questions: values that repeat and that tie
TopEntries ==
    Entries("bh_1", {IntAns(0), IntAns(1)}) \cup Entries("cr_1", {IntAns(0)})
    \cup Entries("tm_1", {IntAns(0)}) \cup Entries("ps_1", {IntAns(0)})
    \cup Entries("in_1", {IntAns(1), IntAns(2)}) \cup Entries("in_2", {IntAns(2)})

InitTop ==
    /\ InitState
    /\ input \in [age : {12}, responses : Dicts(TopEntries, MaxTopResponses)]

SpecTop == InitTop /\ [][AnalyzeOnce]_vars

(***************************************************************************)
(* Assessments on one ShiningStarDiagnosticSystem, in sequence.           *)
(***************************************************************************)
Dict(ids, answers) == [i \in 1..Len(ids) |-> [q |-> ids[i], a |-> IntAns(answers[i])]]

\* two valid students, then one too young, one too old, one whose age is a
\* string, one without a name and one without an age
SystemStudents ==
    {StudentInfo({"id", "name", "age"}, IntAns(8)),
     StudentInfo({"id", "name", "age"}, IntAns(16)),
     StudentInfo({"id", "name", "age"}, IntAns(4)),
     StudentInfo({"id", "name", "age"}, IntAns(19)),
     StudentInfo({"id", "name", "age"}, TextAns),
     StudentInfo({"id", "age"}, IntAns(8)),
     StudentInfo({"id", "name"}, IntAns(0))}

SystemResponses ==
    {Dict(<<"ls_1">>, <<0>>), Dict(<<"ls_1", "ps_1">>, <<2, 2>>),
     Dict(<<"ls_3">>, <<2>>), Dict(<<"ls_1", "in_2">>, <<0, 2>>), <<>>}

SystemParents ==
    {[info |-> NoInfo, responses |-> <<>>],
     [info |-> ParentInfo({"id", "name", "email"}),
      responses |-> Dict(<<"parent_1">>, <<0>>)]}

SystemInputs ==
    [student_info : SystemStudents, student_responses : SystemResponses,
     parent : SystemParents]

\* the call returns: the list of recommended courses, when there is one, is
\* kept with the contents it had on return
Processed(i, out) ==
    /\ input' = i
    /\ ret' = [op |-> "process_student_assessment", val |-> out.result]
    /\ COMMON_QUESTIONS' = out.common
    /\ courses' = out.courses
    /\ returned' =
        IF out.result.status = "success"
        THEN Append(returned,
                    [refs |-> out.result.course_recommendations,
                     snapshot |-> Deref(out.courses, out.result.course_recommendations)])
        ELSE returned

ProcessStudentAssessment ==
    /\ Len(history) < MaxAssessments
    /\ \E i \in SystemInputs :
            Processed(i, process_student_assessment(COMMON_QUESTIONS, courses,
                            i.student_info, i.student_responses, i.parent.info,
                            i.parent.responses))
    /\ history' = Append(history, "process_student_assessment")
    /\ UNCHANGED first_ret

(***************************************************************************)
(* The pathway mapper and the career advisor on one profile, as            *)
(* process_student_assessment calls them on the analysis results.          *)
(***************************************************************************)
\* the sequences without repetition of at most n elements of a set
RECURSIVE Lists(_, _)
Lists(S, n) ==
    IF n = 0 THEN {<<>>}
    ELSE Lists(S, n - 1)
         \cup {Append(l, x) : l \in {m \in Lists(S, n - 1) : Len(m) = n - 1}, x \in S}

ProfileInterests ==
    {l \in Lists({"tech", "arts", "social", "science"}, MaxInterests) :
        \A i, j \in 1..Len(l) : i # j => l[i] # l[j]}

ProfileTraits ==
    {<<>>, <<"persistent">>, <<"reflective", "organized">>, <<"leadership", "innovative">>}

\* the part of the analysis results the two components read
Profiles ==
    [primary : DOMAIN LEARNING_STYLES, top_traits : ProfileTraits,
     top_interests : ProfileInterests]

ProfileAges == {4, 8, 15}

InitProfile ==
    /\ InitState
    /\ input \in [age : ProfileAges, profile : Profiles]

\* pathway_mapper.generate_pathway(student_info, analysis_results)
GeneratePathway ==
    /\ first_ret.op = "none"
    /\ first_ret' = [op |-> "generate_pathway",
                     val |-> generate_pathway(input.age, input.profile)]
    /\ UNCHANGED <<COMMON_QUESTIONS, courses, input, ret, history, returned>>

\* career_advisor.generate_career_affinities(analysis_results)
GenerateCareerAffinities ==
    /\ ret' = [op |-> "generate_career_affinities",
               val |-> generate_career_affinities(input.profile)]
    /\ UNCHANGED <<COMMON_QUESTIONS, courses, input, first_ret, history, returned>>

\* pathway_mapper._select_course(category, level, age) on a category of the
\* catalog and on one that is no key of it
SelectCourse ==
    /\ \E category \in {"tech", "social"}, level \in {"entry", "intermediate", "advanced"} :
            ret' = [op |-> "_select_course",
                    val |-> [category |-> category, level |-> level,
                             course |-> _select_course(category, level, input.age)]]
    /\ UNCHANGED <<COMMON_QUESTIONS, courses, input, first_ret, history, returned>>

NextProfile == GeneratePathway \/ GenerateCareerAffinities \/ SelectCourse

SpecProfile == InitProfile /\ [][NextProfile]_vars

(***************************************************************************)
(* The fit score of a course for a profile.                                *)
(***************************************************************************)
FitProfiles ==
    [primary : {"visual", "social"},
     secondary : {<<>>, <<"logical">>, <<"kinesthetic", "independent">>},
     top_traits : {<<>>, <<"creative">>, <<"analytical", "persistent">>,
                   <<"leadership", "creative", "organized">>},
     top_interests : ProfileInterests]

FitCourseIds == {"TECH101", "ARTS102", "BIZ101", "SCI102"}

InitFit ==
    /\ InitState
    /\ input \in [profile : FitProfiles]

FitScoreReturned(course, profile) ==
    ret' = [op |-> "_calculate_course_fit_score",
            val |-> [course |-> course,
                     score |-> _calculate_course_fit_score(courses, course,
                                    profile.primary, profile.secondary,
                                    profile.top_traits, profile.top_interests)]]

\* recommender._calculate_course_fit_score on a course of the catalog, with
\* the popularity it has there or with the highest popularity
CalculateCourseFitScore ==
    /\ \E id \in FitCourseIds :
        \E popularity \in {CourseById(courses, id).popularity, 100} :
            FitScoreReturned([CourseById(courses, id) EXCEPT !.popularity = popularity],
                             input.profile)
    /\ UNCHANGED <<COMMON_QUESTIONS, courses, input, first_ret, history, returned>>

SpecFit == InitFit /\ [][CalculateCourseFitScore]_vars

(***************************************************************************)
(* The course recommender on the pathway of a profile, as                  *)
(* process_student_assessment calls it.                                    *)
(***************************************************************************)
RecommendProfiles ==
    [primary : {"visual", "logical", "social"},
     secondary : {<<>>, <<"kinesthetic">>},
     top_traits : {<<>>, <<"persistent", "creative">>},
     top_interests : ProfileInterests]

RecommendAges == {5, 8, 12, 18}

InitRecommend ==
    /\ InitState
    /\ input \in [age : RecommendAges, profile : RecommendProfiles]

CoursesRecommended(rec) ==
    /\ ret' = [op |-> "recommend_courses", val |-> rec.ret]
    /\ courses' = rec.courses

\* recommender.recommend_courses(student_info, analysis_results,
\* pathway_results) on the pathway generate_pathway returned
RecommendCourses ==
    /\ first_ret.op = "generate_pathway"
    /\ CoursesRecommended(recommend_courses(courses, input.age, input.profile,
                                            first_ret.val))
    /\ UNCHANGED <<COMMON_QUESTIONS, input, first_ret, history, returned>>

NextRecommend == GeneratePathway \/ RecommendCourses

SpecRecommend == InitRecommend /\ [][NextRecommend]_vars

(***************************************************************************)
(* The math pathway type and the math level of a profile and an age.       *)
(***************************************************************************)
MathTraits ==
    {l \in Lists({"persistent", "creative", "organized", "reflective"}, MaxMathTraits) :
        \A i, j \in 1..Len(l) : i # j => l[i] # l[j]}

MathProfiles ==
    [primary : {"visual", "logical", "auditory", "guided"},
     secondary : {<<>>, <<"logical">>, <<"independent", "social">>},
     top_traits : MathTraits]

MathAges == {5, 8, 9, 10, 11, 12, 14, 15, 18}

InitMath ==
    /\ InitState
    /\ input \in [age : MathAges, profile : MathProfiles]

\* generator._determine_math_pathway_type(primary, secondary, top_traits)
DetermineMathPathwayType ==
    /\ ret' = [op |-> "_determine_math_pathway_type",
               val |-> _determine_math_pathway_type(input.profile.primary,
                            input.profile.secondary, input.profile.top_traits)]
    /\ UNCHANGED <<COMMON_QUESTIONS, courses, input, first_ret, history, returned>>

\* generator._determine_level_index(age)
DetermineLevelIndex ==
    /\ ret' = [op |-> "_determine_level_index", val |-> _determine_level_index(input.age)]
    /\ UNCHANGED <<COMMON_QUESTIONS, courses, input, first_ret, history, returned>>

NextMath == DetermineMathPathwayType \/ DetermineLevelIndex

SpecMath == InitMath /\ [][NextMath]_vars

(***************************************************************************)
(* The exam recommender on a profile and an age.                           *)
(***************************************************************************)
ExamInterests ==
    {l \in Lists({"math", "science", "language", "arts"}, MaxInterests) :
        \A i, j \in 1..Len(l) : i # j => l[i] # l[j]}

ExamProfiles ==
    [primary : {"visual", "logical", "guided"},
     top_traits : {<<>>, <<"analytical">>, <<"analytical", "persistent">>, <<"creative">>},
     top_interests : ExamInterests]

ExamAges == {8, 12, 16}

\* the positions kept of every category's list in a direct call
ExamParts == {{1}, {2}, {1, 3}, {2, 4}}

\* a dict of the categories with the exams at the positions P of each list
_part(age_group_exams, P) ==
    [c \in 1..Len(age_group_exams) |->
        [category |-> age_group_exams[c].category,
         exams |-> SelectSeq(age_group_exams[c].exams,
                             LAMBDA e : \E i \in P \cap 1..Len(age_group_exams[c].exams) :
                                            age_group_exams[c].exams[i] = e)]]

InitExams ==
    /\ InitState
    /\ input \in [age : ExamAges, profile : ExamProfiles]

\* recommender.recommend_examinations(student_info, analysis_results)
RecommendExaminations ==
    /\ ret' = [op |-> "recommend_examinations",
               val |-> recommend_examinations(input.age, input.profile)]
    /\ UNCHANGED <<COMMON_QUESTIONS, courses, input, first_ret, history, returned>>

SelectedFrom(age_group_exams) ==
    ret' = [op |-> "_select_recommended_exams",
            val |-> [age_group_exams |-> age_group_exams,
                     result |-> _select_recommended_exams(age_group_exams,
                                    input.profile.primary, input.profile.top_traits,
                                    input.profile.top_interests)]]

\* recommender._select_recommended_exams on a part of the age group's exams
SelectRecommendedExams ==
    /\ \E P \in ExamParts : SelectedFrom(_part(EXAMINATIONS[_age_group(input.age)], P))
    /\ UNCHANGED <<COMMON_QUESTIONS, courses, input, first_ret, history, returned>>

NextExams == RecommendExaminations \/ SelectRecommendedExams

SpecExams == InitExams /\ [][NextExams]_vars

(***************************************************************************)
(* The analysis of one student's answers, then the badges and the          *)
(* comparison with the parent's answers, as process_student_assessment     *)
(* calls them on the analysis results.                                     *)
(***************************************************************************)
\* a learning-style answer, trait answers with and without a badge (cm_1
\* maps to "visual", ps_1 to "example-based" and "persistent"), interest
\* answers with and without a badge (in_1: "math", "tech"), and high_5,
\* whose third option maps to the interest "creative"
InsightEntries ==
    Entries("ls_1", {IntAns(0)}) \cup Entries("cm_1", {IntAns(0)})
    \cup Entries("ps_1", {IntAns(0), IntAns(2)}) \cup Entries("in_1", {IntAns(0), IntAns(2)})
    \cup Entries("high_5", {IntAns(2)})

\* the parent's answers: parent_1 with two styles and an index out of range,
\* a trait and an interest question, and an id that is no parent question
ParentEntries ==
    Entries("parent_1", {IntAns(0), IntAns(1), IntAns(4)})
    \cup Entries("parent_3", {IntAns(2)}) \cup Entries("parent_5", {IntAns(0)})
    \cup Entries("zz_9", {IntAns(0)})

InsightAges == {8, 16}

InitInsight ==
    /\ InitState
    /\ input \in [age : InsightAges, responses : Dicts(InsightEntries, MaxResponses),
                  parent_responses : Dicts(ParentEntries, MaxParentResponses)]

\* generate_learning_badges(analysis_results)
GenerateLearningBadges ==
    /\ first_ret.op = "analyze_responses" /\ first_ret.val.err = ""
    /\ ret' = [op |-> "generate_learning_badges",
               val |-> generate_learning_badges(first_ret.val)]
    /\ UNCHANGED <<COMMON_QUESTIONS, courses, input, first_ret, history, returned>>

\* analyzer.compare_parent_responses(parent_responses, analysis_results)
CompareParentResponses ==
    /\ first_ret.op = "analyze_responses" /\ first_ret.val.err = ""
    /\ ret' = [op |-> "compare_parent_responses",
               val |-> compare_parent_responses(input.parent_responses, first_ret.val)]
    /\ UNCHANGED <<COMMON_QUESTIONS, courses, input, first_ret, history, returned>>

NextInsight == AnalyzeOnce \/ GenerateLearningBadges \/ CompareParentResponses

SpecInsight == InitInsight /\ [][NextInsight]_vars

NoInput ==
    [student_info |-> NoInfo, student_responses |-> <<>>,
     parent |-> [info |-> NoInfo, responses |-> <<>>]]

Init == InitState /\ input = NoInput

Next == ProcessStudentAssessment

Spec == Init /\ [][Next]_vars

(***************************************************************************)
(* Calls of get_questions_for_age, one after the other, on the ages at and *)
(* next to the limits of the bands.                                        *)
(***************************************************************************)
QuestionAges == {4, 5, 10, 11, 13, 14, 18, 19}

\* the list returned is kept with the age it was asked for
QuestionsKept(age, g) ==
    /\ QuestionsReturned(age, g)
    /\ returned' = Append(returned, [age |-> age, questions |-> g.ret])

GetQuestionsForAgeAt ==
    /\ Len(history) < MaxCalls
    /\ \E age \in QuestionAges :
            QuestionsKept(age, get_questions_for_age(COMMON_QUESTIONS, age))
    /\ history' = Append(history, "get_questions_for_age")
    /\ UNCHANGED <<courses, input, first_ret>>

SpecQuestions == Init /\ [][GetQuestionsForAgeAt]_vars

(***************************************************************************)
(* The journey steps of the mathematics pathway: _generate_journey_steps   *)
(* called on its own and from generate_math_pathway, its while loop one    *)
(* pass at a time.                                                         *)
(***************************************************************************)
JourneyCourses ==
    {MATH_COURSES.elementary[1], MATH_COURSES.middle[2], MATH_COURSES.high[1],
     MATH_COURSES.high[2]}

JourneyCourseLists ==
    {l \in Lists(JourneyCourses, MaxRecommended) : \A i, j \in 1..Len(l) : i # j => l[i] # l[j]}

\* the arguments of a call of _generate_journey_steps
JourneyCalls ==
    [call : {"_generate_journey_steps"}, pathway_type : Range(PATHWAY_TYPES),
     level_index : 0..3, recommended_courses : JourneyCourseLists]

JourneyAges == {5, 8, 9, 11, 12, 14, 15, 18}

\* the arguments of a call of generate_math_pathway: profiles of the three
\* pathway types
MathPathwayCalls ==
    [call : {"generate_math_pathway"}, age : JourneyAges,
     profile : [primary : {"visual", "logical", "social"}, secondary : {<<>>},
                top_traits : {<<>>, <<"persistent">>}]]

InitJourney ==
    /\ InitState
    /\ input \in JourneyCalls \cup MathPathwayCalls

\* the call has reached the while loop with these relevant levels
JourneyEntered(op, pathway_type, relevant_levels, recommended_courses) ==
    ret' = [op |-> op, pc |-> "while", pathway_type |-> pathway_type,
            relevant_levels |-> relevant_levels,
            recommended_courses |-> recommended_courses, journey_steps |-> <<>>]

\* generator._generate_journey_steps(pathway_type, level_index, courses), up
\* to its while loop
GenerateJourneySteps ==
    /\ ret.op = "none" /\ input.call = "_generate_journey_steps"
    /\ JourneyEntered("_generate_journey_steps", input.pathway_type,
                      _relevant_levels(input.pathway_type, input.level_index),
                      input.recommended_courses)
    /\ UNCHANGED <<COMMON_QUESTIONS, courses, input, first_ret, history, returned>>

MathPathwayEntered(pathway_type, level_index, age) ==
    JourneyEntered("generate_math_pathway", pathway_type,
                   _relevant_levels(pathway_type, level_index),
                   _get_recommended_courses(age, pathway_type, level_index))

\* generator.generate_math_pathway(student_info, analysis_results), up to the
\* while loop of its _generate_journey_steps call
GenerateMathPathway ==
    /\ ret.op = "none" /\ input.call = "generate_math_pathway"
    /\ MathPathwayEntered(_determine_math_pathway_type(input.profile.primary,
                                input.profile.secondary, input.profile.top_traits),
                          _determine_level_index(input.age), input.age)
    /\ UNCHANGED <<COMMON_QUESTIONS, courses, input, first_ret, history, returned>>

\* one pass of "while len(relevant_levels) < 3"
ExtendLevels ==
    /\ ret.op # "none" /\ ret.pc = "while" /\ Len(ret.relevant_levels) < 3
    /\ ret' = [ret EXCEPT !.relevant_levels = _extend_levels(ret.pathway_type, @)]
    /\ UNCHANGED <<COMMON_QUESTIONS, courses, input, first_ret, history, returned>>

\* the loop is left, the courses are matched and the steps returned
ReturnJourneySteps ==
    /\ ret.op # "none" /\ ret.pc = "while" /\ Len(ret.relevant_levels) >= 3
    /\ ret' = [ret EXCEPT !.pc = "done",
                          !.journey_steps = _journey_steps(ret.relevant_levels,
                                                           ret.recommended_courses)]
    /\ UNCHANGED <<COMMON_QUESTIONS, courses, input, first_ret, history, returned>>

NextJourney == GenerateJourneySteps \/ GenerateMathPathway \/ ExtendLevels \/ ReturnJourneySteps

SpecJourney == InitJourney /\ [][NextJourney]_vars

\* a call that is running goes on running
SpecJourneyFair == SpecJourney /\ WF_vars(NextJourney)

(***************************************************************************)
(* Properties.                                                             *)
(***************************************************************************)
\* the question of the age's questionnaire a response answers, or None
QuestionOf(r, age) ==
    FirstWithId(get_questions_for_age(COMMON_QUESTIONS_INIT, age).ret, r.q)

\* an integer answer that is one of the options of a question of the age
InRangeAnswer(r, age) ==
    /\ r.a.t = "int"
    /\ QuestionOf(r, age) # NoQuestion
    /\ r.a.v >= 0
    /\ r.a.v < QuestionOf(r, age).nopts

\* an integer answer that is no index of the mapping list of its question
OutOfRangeForMapping(r, age) ==
    /\ r.a.t = "int"
    /\ QuestionOf(r, age) # NoQuestion
    /\ (r.a.v < 0 \/ r.a.v >= Len(QuestionOf(r, age).mapping))

\* the value a response adds to the counter of a mapping key, "" for none
ValueOf(r, age, mapkey) ==
    IF QuestionOf(r, age).mapkey = mapkey /\ r.a.t = "int" /\ r.a.v >= 0
       /\ r.a.v < Len(QuestionOf(r, age).mapping)
    THEN QuestionOf(r, age).mapping[r.a.v + 1]
    ELSE ""

Observed(mapkey) ==
    {ValueOf(input.responses[i], input.age, mapkey) : i \in 1..Len(input.responses)} \ {""}

Freq(mapkey, value) ==
    Cardinality({i \in 1..Len(input.responses) :
                    ValueOf(input.responses[i], input.age, mapkey) = value})

FirstSeen(mapkey, value) ==
    CHOOSE i \in 1..Len(input.responses) :
        /\ ValueOf(input.responses[i], input.age, mapkey) = value
        /\ \A j \in 1..(i - 1) : ValueOf(input.responses[j], input.age, mapkey) # value

\* a comes before b in the ranking by frequency, then by first appearance
RanksBefore(mapkey, a, b) ==
    \/ Freq(mapkey, a) > Freq(mapkey, b)
    \/ /\ Freq(mapkey, a) = Freq(mapkey, b)
       /\ FirstSeen(mapkey, a) < FirstSeen(mapkey, b)

Analyzed == ret.op = "analyze_responses"
Returned == ret.op = "analyze_responses" /\ ret.val.err = ""

\* C1: a valid student (integer age 5..18) with a non-empty set of in-range
\* integer answers to questions of the age's questionnaire is processed
\* without an exception of any stage: the status is not "error".
C1_ValidAssessmentSucceeds ==
    (/\ ret.op = "process_student_assessment"
     /\ _validate_student_info(input.student_info) = ""
     /\ input.student_responses # <<>>
     /\ \A i \in 1..Len(input.student_responses) :
            InRangeAnswer(input.student_responses[i], input.student_info.age.v))
    => ret.val.status # "error"

\* C2: every analyze_responses call on a fixed (responses, age) returns what
\* the first call returned, whatever other calls were made in between.
C2_Deterministic == Analyzed => ret = first_ret

C2_Witness ==
    /\ history = <<"analyze_responses", "get_questions_for_age", "analyze_responses">>
    /\ ret.val.err = ""
    /\ ret.val.top_traits # <<>>
    /\ input.age = 16

\* the entries of the responses that answer a question of dimension d, and
\* those of them answered with an index of 2 or more
RelevantPresent(d) ==
    {i \in 1..Len(input.responses) : input.responses[i].q \in Range(DIMENSIONS[d])}

PositivePresent(d) == {i \in RelevantPresent(d) : input.responses[i].a.v >= 2}

\* round(a / b) of Python for a >= 0 and b > 0: to the nearest integer, a
\* half to the even one
RoundDiv(a, b) ==
    IF 2 * (a % b) < b THEN a \div b
    ELSE IF 2 * (a % b) > b THEN (a \div b) + 1
    ELSE IF (a \div b) % 2 = 0 THEN a \div b
    ELSE (a \div b) + 1

Scored == ret.op = "_calculate_dimension_score"

InRangeOnly(responses, age) ==
    SelectSeq(responses, LAMBDA r : ~OutOfRangeForMapping(r, age))

\* C4: an integer answer that is out of range for the mapping of its question
\* is skipped: the call ends as it does without that answer, without an
\* error, and with the three counters it has without that answer.
C4_OutOfRangeSkipped ==
    (/\ Analyzed
     /\ \A i \in 1..Len(input.responses) : input.responses[i].a.t = "int"
     /\ analyze_responses(COMMON_QUESTIONS_INIT, InRangeOnly(input.responses, input.age),
                          input.age).ret.err = "")
    => /\ ret.val.err = ""
       /\ ret.val.learning_style_counts =
            analyze_responses(COMMON_QUESTIONS_INIT,
                              InRangeOnly(input.responses, input.age),
                              input.age).ret.learning_style_counts
       /\ ret.val.trait_counts =
            analyze_responses(COMMON_QUESTIONS_INIT,
                              InRangeOnly(input.responses, input.age),
                              input.age).ret.trait_counts
       /\ ret.val.interest_counts =
            analyze_responses(COMMON_QUESTIONS_INIT,
                              InRangeOnly(input.responses, input.age),
                              input.age).ret.interest_counts

\* the responses without the free-text answers
WithoutText(responses) == SelectSeq(responses, LAMBDA r : r.a.t = "int")

\* C5: responses with a free-text answer pass validation, and the free text
\* does not make analyze_responses raise: where the call returns a result
\* without the free-text answers, it returns one with them.
C5_FreeTextAccepted ==
    (/\ Analyzed
     /\ \E i \in 1..Len(input.responses) : input.responses[i].a.t = "str"
     /\ analyze_responses(COMMON_QUESTIONS_INIT, WithoutText(input.responses),
                          input.age).ret.err = "")
    => /\ _validate_responses(input.responses) = ""
       /\ ret.val.err = ""

\* C6: the primary style and every secondary style of a returned result is
\* one of the six defined learning styles.
C6_StylesAreDefined ==
    Returned =>
        /\ ret.val.primary \in DOMAIN LEARNING_STYLES
        /\ \A i \in 1..Len(ret.val.secondary) :
                ret.val.secondary[i] \in DOMAIN LEARNING_STYLES

\* C7: after any sequence of assessments the question catalog and the course
\* catalog equal their initial contents.
C7_CatalogsNeverMutated ==
    /\ COMMON_QUESTIONS = COMMON_QUESTIONS_INIT
    /\ courses = COURSES_INIT

\* C8: every list of recommended courses handed out so far reads as it did
\* when it was returned: each course keeps its field values, the
\* personalized_benefit included, whatever was processed afterwards.
C8_ReturnedListsKeepContents ==
    \A i \in 1..Len(returned) : Deref(courses, returned[i].refs) = returned[i].snapshot

\* C9: in a returned result the secondary styles are the styles ranked 2nd
\* and 3rd by frequency: at most two, as many as there are observed styles
\* besides the primary one, the primary style not among them, none when
\* fewer than two distinct styles were observed, and every observed style
\* left out ranks after each of them.
C9_SecondaryStyles ==
    Returned =>
        /\ Len(ret.val.secondary) <= 2
        /\ ret.val.primary \notin Range(ret.val.secondary)
        /\ Cardinality(Observed("learning_style_mapping")) < 2 => ret.val.secondary = <<>>
        /\ Cardinality(Observed("learning_style_mapping")) >= 2 =>
            /\ Len(ret.val.secondary)
                = Min(2, Cardinality(Observed("learning_style_mapping")) - 1)
            /\ \A i \in 1..Len(ret.val.secondary) :
                /\ ret.val.secondary[i] \in Observed("learning_style_mapping")
                /\ RanksBefore("learning_style_mapping", ret.val.primary,
                               ret.val.secondary[i])
                /\ \A j \in (i + 1)..Len(ret.val.secondary) :
                        RanksBefore("learning_style_mapping", ret.val.secondary[i],
                                    ret.val.secondary[j])
                /\ \A o \in Observed("learning_style_mapping")
                            \ ({ret.val.primary} \cup Range(ret.val.secondary)) :
                        RanksBefore("learning_style_mapping", ret.val.secondary[i], o)

C9_Witness ==
    /\ Returned
    /\ Cardinality(Observed("learning_style_mapping")) = 4
    /\ Len(ret.val.secondary) = 2
    /\ Freq("learning_style_mapping", ret.val.primary) = 1

\* a top list of a counter: min(3, distinct values) long, every value before
\* the values after it and before the values left out, in the ranking by
\* frequency, then by first appearance in the response order
IsTopList(top, mapkey) ==
    /\ Len(top) = Min(3, Cardinality(Observed(mapkey)))
    /\ \A i \in 1..Len(top) :
        /\ top[i] \in Observed(mapkey)
        /\ Freq(mapkey, top[i]) = CounterGet(IF mapkey = "trait_mapping"
                                             THEN ret.val.trait_counts
                                             ELSE ret.val.interest_counts, top[i])
        /\ \A j \in (i + 1)..Len(top) : RanksBefore(mapkey, top[i], top[j])
        /\ \A o \in Observed(mapkey) \ Range(top) : RanksBefore(mapkey, top[i], o)

\* C10: top_traits and top_interests each have length min(3, number of
\* distinct values observed), are in non-increasing order of observed
\* frequency, and among values of equal frequency the one met first in the
\* response order comes first.
C10_TopLists ==
    Returned =>
        /\ IsTopList(ret.val.top_traits, "trait_mapping")
        /\ IsTopList(ret.val.top_interests, "interest_mapping")

C10_Witness ==
    /\ Returned
    /\ Len(ret.val.top_traits) = 3
    /\ FirstSeen("trait_mapping", ret.val.top_traits[1]) > 1
    /\ Freq("trait_mapping", ret.val.top_traits[2])
        = Freq("trait_mapping", ret.val.top_traits[3])

\* C11: analyze_responses on an empty ResponseSet, for every age, returns a
\* result with primary style "visual", no secondary style, empty top_traits
\* and top_interests, and the score 50 for each of the four dimensions.
C11_EmptyResponses ==
    (Analyzed /\ input.responses = <<>>) =>
        /\ ret.val.err = ""
        /\ ret.val.primary = "visual"
        /\ ret.val.secondary = <<>>
        /\ ret.val.top_traits = <<>>
        /\ ret.val.top_interests = <<>>
        /\ DOMAIN ret.val.dimension_scores
            = {"logical_thinking", "creativity", "social_skills", "self_direction"}
        /\ \A d \in DOMAIN ret.val.dimension_scores : ret.val.dimension_scores[d] = 50

C11_Witness ==
    /\ Analyzed
    /\ input.responses = <<>>
    /\ input.age = 4
    /\ Len(history) = MaxCalls

\* an age below the lowest band or above the highest one
OutsideBands(age) ==
    age < AGE_GROUPS.elementary.min_age \/ age > AGE_GROUPS.high.max_age

\* the responses to the common questions
CommonOnly(responses) ==
    SelectSeq(responses,
              LAMBDA r : \E i \in 1..Len(COMMON_QUESTIONS_INIT) :
                            COMMON_QUESTIONS_INIT[i].id = r.q)

\* C12: for an age outside every band analyze_responses scores the common
\* questions only: what it returns, the dimension scores included, is what
\* it returns for the responses to the common questions alone, so responses
\* to band-specific or unknown ids change nothing and make no call fail.
C12_OutsideBandsCommonOnly ==
    (Analyzed /\ OutsideBands(input.age)) =>
        ret.val = analyze_responses(COMMON_QUESTIONS_INIT, CommonOnly(input.responses),
                                    input.age).ret

AssessmentReturned == ret.op = "process_student_assessment"

\* a StudentInfo that lacks id, name or age, or whose age is no integer
\* between 5 and 18
InvalidStudent(student_info) ==
    \/ "id" \notin student_info.keys
    \/ "name" \notin student_info.keys
    \/ "age" \notin student_info.keys
    \/ student_info.age.t # "int"
    \/ student_info.age.v \notin 5..18

\* C13: an assessment whose StudentInfo is invalid or whose student
\* ResponseSet is empty returns status "error" having started no stage after
\* the validation: no analysis, no downstream stage, no results file, no
\* delivery, and the two catalogs are as they were before.
C13_InvalidInputRejected ==
    (AssessmentReturned /\ (InvalidStudent(input.student_info) \/ input.student_responses = <<>>))
    => /\ ret.val.status = "error"
       /\ ret.val.trace = <<"validate">>
       /\ ret.val.course_recommendations = <<>>
       /\ Len(returned) < Len(history)

C13_Witness ==
    /\ AssessmentReturned
    /\ ~InvalidStudent(input.student_info)
    /\ input.student_responses = <<>>
    /\ input.parent.info # NoInfo
    /\ ret.val.status = "error"
    /\ Len(history) = 2
    /\ Len(returned) = 1

\* the position of a stage in the trace of the returned call, 0 when the
\* call did not start it
StartedAt(stage) ==
    IF \E i \in 1..Len(ret.val.trace) : ret.val.trace[i] = stage
    THEN CHOOSE i \in 1..Len(ret.val.trace) : ret.val.trace[i] = stage
    ELSE 0

\* stage a, if started, was started after stage b was
After(a, b) == StartedAt(a) > 0 => (StartedAt(b) > 0 /\ StartedAt(b) < StartedAt(a))

\* the analyzer raised on the input of the returned call
AnalyzerFailed ==
    /\ _validate(input.student_info, input.student_responses, input.parent.info,
                 input.parent.responses) = ""
    /\ analyze_responses(COMMON_QUESTIONS_INIT, input.student_responses,
                         input.student_info.age.v).ret.err # ""

\* C14: within one assessment the stages run one after the other, each
\* started when the one before has returned: the analyzer before the badge,
\* parent-comparison, pathway, career and course stages; the course
\* recommender after the pathway mapper; persistence and delivery after all
\* of these; and when the analyzer fails no later stage is started.
C14_StageOrder ==
    AssessmentReturned =>
        /\ \A i, j \in 1..Len(ret.val.trace) : i # j => ret.val.trace[i] # ret.val.trace[j]
        /\ \A s \in {"badges", "compare", "pathway", "career", "courses"} :
                After(s, "analyze")
        /\ After("courses", "pathway")
        /\ \A s \in {"analyze", "badges", "pathway", "career", "courses"} :
                After("persist", s) /\ After("deliver", s)
        /\ input.parent.responses # <<>> =>
                (After("persist", "compare") /\ After("deliver", "compare"))
        /\ After("deliver", "persist")
        /\ AnalyzerFailed => ret.val.trace = <<"validate", "analyze">>

C14_Witness ==
    /\ AssessmentReturned
    /\ ret.val.trace = <<"validate", "analyze", "badges", "compare", "pathway",
                         "career", "courses", "persist", "deliver">>

C14_FailureWitness ==
    /\ AssessmentReturned
    /\ AnalyzerFailed
    /\ ret.val.status = "error"

\* the course is what the selection rule names for the bucket: the sentinel
\* for an empty bucket, else the first course of the bucket whose age range
\* contains the age, else the first course of the bucket; never None
SlotHolds(course, category, level, age) ==
    /\ course # None
    /\ _available_courses(category, level) = <<>> => course = NotAvailable
    /\ _available_courses(category, level) # <<>> =>
        \E i \in 1..Len(_available_courses(category, level)) :
            /\ course = _available_courses(category, level)[i]
            /\ \/ /\ AgeInRange(course, age)
                  /\ \A j \in 1..(i - 1) :
                        ~AgeInRange(_available_courses(category, level)[j], age)
               \/ /\ i = 1
                  /\ \A j \in 1..Len(_available_courses(category, level)) :
                        ~AgeInRange(_available_courses(category, level)[j], age)

PathwayReturned == first_ret.op = "generate_pathway"

\* C15: generate_pathway returns for every profile and age, and each of its
\* four slots holds a course record: the first course of the slot's bucket
\* whose age range contains the age, else the first course of the bucket;
\* _select_course gives the "Course Not Available" sentinel for an empty
\* bucket; no slot is None.
C15_SlotsHoldCourses ==
    /\ PathwayReturned =>
        /\ SlotHolds(first_ret.val.step1.primary_course,
                     first_ret.val.primary_category, "entry", input.age)
        /\ SlotHolds(first_ret.val.step1.complementary_course,
                     first_ret.val.secondary_category, "entry", input.age)
        /\ SlotHolds(first_ret.val.step2.course,
                     first_ret.val.primary_category, "intermediate", input.age)
        /\ SlotHolds(first_ret.val.step3.course,
                     first_ret.val.primary_category, "advanced", input.age)
    /\ ret.op = "_select_course" =>
        SlotHolds(ret.val.course, ret.val.category, ret.val.level, input.age)

\* a pathway with a slot filled by the second course of its bucket, one by
\* the first course though no range contains the age, and a sentinel returned
C15_Witness ==
    /\ PathwayReturned
    /\ input.age = 15
    /\ first_ret.val.step1.primary_course.id = "TECH102"
    /\ ~AgeInRange(first_ret.val.step1.complementary_course, input.age)
    /\ ret.op = "_select_course"
    /\ ret.val.course = NotAvailable

\* C16: for every profile the Career Advisor's primary category is the
\* Pathway Mapper's primary_category and the first of its secondary
\* categories is the Pathway Mapper's secondary_category.
C16_SameCategories ==
    (PathwayReturned /\ ret.op = "generate_career_affinities") =>
        /\ ret.val.primary_field = first_ret.val.primary_category
        /\ ret.val.secondary_fields # <<>>
        /\ ret.val.secondary_fields[1] = first_ret.val.secondary_category

\* a profile whose traits name categories the advisor appends too
C16_Witness ==
    /\ PathwayReturned
    /\ ret.op = "generate_career_affinities"
    /\ input.profile.top_interests # <<>>
    /\ input.profile.top_interests[1] \notin Range(CATEGORIES)
    /\ input.profile.top_traits = <<"reflective", "organized">>
    /\ Len(ret.val.secondary_fields) = 2

FitScored == ret.op = "_calculate_course_fit_score"

\* the course lists the primary style and the top-ranked trait, is a course
\* of the category of the top interest and has popularity 100
FullMatch ==
    /\ input.profile.primary \in Range(ret.val.course.learning_styles)
    /\ input.profile.top_traits # <<>>
    /\ input.profile.top_traits[1] \in Range(ret.val.course.traits)
    /\ input.profile.top_interests # <<>>
    /\ input.profile.top_interests[1] \in DOMAIN courses
    /\ \E i \in 1..Len(courses[input.profile.top_interests[1]]) :
            courses[input.profile.top_interests[1]][i].id = ret.val.course.id
    /\ ret.val.course.popularity = 100

\* C18: a course that lists the primary style and the top-ranked trait, is in
\* the category of the top interest and has popularity 100 scores at least
\* 70 points (700 in the tenths of a point the scores are counted in),
\* whatever the secondary styles and the other traits and interests are.
C18_FullMatchScoresSeventy == (FitScored /\ FullMatch) => ret.val.score >= 700

\* the bound is met: a full match without any further match scores 70
C18_Witness ==
    /\ FitScored
    /\ FullMatch
    /\ ret.val.score = 700
    /\ Len(input.profile.top_interests) = 2

\* the score of a pathway type for the profile of the input, as the weighted
\* sum of the table entries, in tenths: the primary style in full, each
\* secondary style at half weight, the first three traits at 1.0, 0.7, 0.4
RECURSIVE SumOver(_, _, _)
SumOver(n, f(_), acc) == IF n = 0 THEN acc ELSE SumOver(n - 1, f, acc + f(n))

StyleTenths(style, p) == IF style \in DOMAIN style_scores THEN style_scores[style][p] ELSE 0
TraitTenths(trait, p) == IF trait \in DOMAIN trait_scores THEN trait_scores[trait][p] ELSE 0

WeightedSum(p) ==
    10 * StyleTenths(input.profile.primary, p)
    + SumOver(Len(input.profile.secondary),
              LAMBDA i : 5 * StyleTenths(input.profile.secondary[i], p), 0)
    + SumOver(Min(3, Len(input.profile.top_traits)),
              LAMBDA i : (IF i = 1 THEN 10 ELSE IF i = 2 THEN 7 ELSE 4)
                            * TraitTenths(input.profile.top_traits[i], p), 0)

MathTyped == ret.op = "_determine_math_pathway_type"

\* C19: the type selected has the highest score; of the types with the
\* highest score it is the earliest in the order abacus, vedic, integrated;
\* it is "integrated" when no type scores above 0; and the primary style
\* "logical" without secondary styles and traits selects "vedic".
C19_HighestScoreWins ==
    MathTyped =>
        /\ (\A p \in Range(PATHWAY_TYPES) : WeightedSum(p) <= 0) => ret.val = "integrated"
        /\ (\E p \in Range(PATHWAY_TYPES) : WeightedSum(p) > 0) =>
            \E i \in 1..Len(PATHWAY_TYPES) :
                /\ ret.val = PATHWAY_TYPES[i]
                /\ \A j \in 1..Len(PATHWAY_TYPES) :
                        WeightedSum(PATHWAY_TYPES[j]) <= WeightedSum(PATHWAY_TYPES[i])
                /\ \A j \in 1..(i - 1) :
                        WeightedSum(PATHWAY_TYPES[j]) < WeightedSum(PATHWAY_TYPES[i])
        /\ (input.profile.primary = "logical" /\ input.profile.secondary = <<>>
                /\ input.profile.top_traits = <<>>) => ret.val = "vedic"

LevelReturned == ret.op = "_determine_level_index"

\* C20 as stated: age 10 gives index 0, age 11 index 1, age 14 index 2 and
\* age 15 index 3.
C20_LevelAtBoundaries ==
    LevelReturned =>
        /\ input.age = 10 => ret.val = 0
        /\ input.age = 11 => ret.val = 1
        /\ input.age = 14 => ret.val = 2
        /\ input.age = 15 => ret.val = 3

\* C20 (as amended): age 8 gives index 0, ages 9, 10 and 11 give index 1,
\* ages 12 and 14 give index 2, age 15 gives index 3.
C20_LevelAtBandLimits ==
    LevelReturned =>
        /\ input.age = 8 => ret.val = 0
        /\ input.age \in {9, 10, 11} => ret.val = 1
        /\ input.age \in {12, 14} => ret.val = 2
        /\ input.age = 15 => ret.val = 3

C20_Witness ==
    /\ LevelReturned
    /\ input.age = 10
    /\ ret.val = 1

ExamsRecommended == ret.op = "recommend_examinations"

\* the weight of a category for the profile of the input, in tenths: the
\* style's weight and 0.1 for every adjustment
ExamWeight(category) ==
    _base_weight(input.profile.primary, category)
    + _increments(category, input.profile.top_traits, input.profile.top_interests)

\* 1.0 plus 0.5 per top interest found in the exam, in halves
ExamScore(exam) ==
    2 + Cardinality({j \in 1..Len(input.profile.top_interests) :
                        input.profile.top_interests[j] \in exam.mentions})

\* min(len(exams), max(1, floor(len(exams) * weight)))
ExamCount(exams, category) ==
    Min(Len(exams),
        IF (Len(exams) * ExamWeight(category)) \div 10 > 1
        THEN (Len(exams) * ExamWeight(category)) \div 10 ELSE 1)

\* selected holds the right number of exams of the list, at least one, in
\* descending order of score, no exam left out scoring above one selected
SelectedByScore(selected, exams, category) ==
    /\ Len(selected) = ExamCount(exams, category)
    /\ Len(selected) >= 1
    /\ \A i \in 1..Len(selected) :
        /\ selected[i] \in Range(exams)
        /\ \A j \in (i + 1)..Len(selected) :
            selected[i] # selected[j] /\ ExamScore(selected[i]) >= ExamScore(selected[j])
        /\ \A e \in Range(exams) \ Range(selected) : ExamScore(selected[i]) >= ExamScore(e)

\* C17: recommend_examinations completes for every profile and age and
\* returns, for each exam category of the age band, exactly
\* min(len(exams), max(1, floor(len(exams) * weight))) exams of the
\* category, in descending order of score, so at least one per category.
C17_ExamsSelectedPerCategory ==
    ExamsRecommended =>
        /\ ret.val.err = ""
        /\ Len(ret.val.recommended) = Len(EXAMINATIONS[_age_group(input.age)])
        /\ \A c \in 1..Len(ret.val.recommended) :
            /\ ret.val.recommended[c].category
                = EXAMINATIONS[_age_group(input.age)][c].category
            /\ SelectedByScore(ret.val.recommended[c].exams,
                               EXAMINATIONS[_age_group(input.age)][c].exams,
                               ret.val.recommended[c].category)

(***************************************************************************)
(* The comparison with the parent's answers.                               *)
(***************************************************************************)
Compared == ret.op = "compare_parent_responses"

\* the learning styles the parent's answers imply: the option chosen, by a
\* valid index, in a parent question of the learning-style category
ImpliedStyles ==
    {q.mapping[e.a.v + 1] :
        <<q, e>> \in {<<q, e>> \in Range(PARENT_MIRROR_QUESTIONS) \X Range(input.parent_responses) :
                        /\ q.id = e.q /\ q.category = "learning_style"
                        /\ e.a.t = "int" /\ e.a.v \in 0..(Len(q.mapping) - 1)}}

\* the sentences of a list that speak of the learning style
StyleSentences(sentences) == SelectSeq(sentences, LAMBDA s : s.about = "learning_style")

\* C21: when compare_parent_responses returns and the style the parent's
\* answer implies differs from the student's primary style, the result has
\* exactly one learning-style difference, naming both styles, exactly one
\* learning-style insight, recommending the student's style, and no
\* learning-style alignment; when the two are equal it has exactly one
\* learning-style alignment and no learning-style difference or insight.
C21_StyleComparison ==
    (Compared /\ ret.val.err = "") =>
        \A p \in ImpliedStyles :
            LET s == first_ret.val.primary
            IN  IF p # s
                THEN /\ Len(StyleSentences(ret.val.differences)) = 1
                     /\ StyleSentences(ret.val.differences)[1].a = p
                     /\ StyleSentences(ret.val.differences)[1].b = s
                     /\ Len(StyleSentences(ret.val.insights)) = 1
                     /\ StyleSentences(ret.val.insights)[1].a = s
                     /\ StyleSentences(ret.val.alignments) = <<>>
                ELSE /\ Len(StyleSentences(ret.val.alignments)) = 1
                     /\ StyleSentences(ret.val.alignments)[1].a = s
                     /\ StyleSentences(ret.val.differences) = <<>>
                     /\ StyleSentences(ret.val.insights) = <<>>

\* the parent chose the auditory option, the student's answers give visual,
\* and the comparison holds the difference and the insight
C21_Witness ==
    /\ Compared /\ ret.val.err = ""
    /\ ImpliedStyles = {"auditory"}
    /\ first_ret.val.primary = "visual"
    /\ Len(input.parent_responses) = 2
    /\ Len(StyleSentences(ret.val.differences)) = 1
    /\ Len(StyleSentences(ret.val.insights)) = 1

\* the parent's answers hold no answer to a learning-style parent question
NoStyleAnswer ==
    \A e \in Range(input.parent_responses) :
        \A q \in Range(PARENT_MIRROR_QUESTIONS) : q.id = e.q => q.category # "learning_style"

\* C28: if the parent's answers hold no answer to a learning-style question,
\* the comparison returned has no learning-style alignment, no
\* learning-style difference and no learning-style insight.
C28_NoStyleAnswerNoStyleSentence ==
    (Compared /\ ret.val.err = "" /\ NoStyleAnswer) =>
        /\ StyleSentences(ret.val.alignments) = <<>>
        /\ StyleSentences(ret.val.differences) = <<>>
        /\ StyleSentences(ret.val.insights) = <<>>

(***************************************************************************)
(* The badges.                                                             *)
(***************************************************************************)
Badged == ret.op = "generate_learning_badges"

\* the number of elements of a list that is 1 when the list is non-empty
OneIf(cond) == IF cond THEN 1 ELSE 0

\* C22 as stated: generate_learning_badges returns a primary badge, a
\* secondary badge for the first top trait whenever top_traits is non-empty
\* and one for the first top interest whenever top_interests is non-empty.
C22_BadgePerTraitAndInterest ==
    Badged =>
        /\ ret.val.err = "" /\ ret.val.primary_badge # ""
        /\ Len(ret.val.secondary_badges) =
                OneIf(first_ret.val.top_traits # <<>>)
                + OneIf(first_ret.val.top_interests # <<>>)

\* the keys of the badge table
BadgeKeys ==
    {"visual", "auditory", "kinesthetic", "logical", "social", "independent",
     "creative", "analytical", "persistent", "leadership",
     "tech", "arts", "entrepreneurship", "science", "language"}

\* the first element of a list is a key of the badge table
FirstHasBadge(top) == top # <<>> /\ top[1] \in BadgeKeys

\* C22, amended: generate_learning_badges returns the primary style's badge
\* for every analysis result; the secondary badges are the badge of the
\* first top trait, when top_traits is non-empty and that trait is a key of
\* the badge table, followed by the badge of the first top interest, when
\* top_interests is non-empty and that interest is a key of the table.
C22_BadgePerKnownTraitAndInterest ==
    Badged =>
        LET traits == first_ret.val.top_traits
            interests == first_ret.val.top_interests
            sec == ret.val.secondary_badges
        IN  /\ ret.val.err = ""
            /\ ret.val.primary_badge = BADGES[first_ret.val.primary]
            /\ Len(sec) = OneIf(FirstHasBadge(traits)) + OneIf(FirstHasBadge(interests))
            /\ FirstHasBadge(traits) => sec[1] = BADGES[traits[1]]
            /\ FirstHasBadge(interests) => sec[Len(sec)] = BADGES[interests[1]]

\* a persistent student interested in technology gets both secondary badges
C22_Witness ==
    /\ Badged
    /\ first_ret.val.top_traits = <<"persistent">>
    /\ first_ret.val.top_interests = <<"tech">>
    /\ ret.val.secondary_badges = <<"Persistence Pro", "Tech Wizard">>

StyleBadges ==
    {"Visual Virtuoso", "Sound Sage", "Hands-On Hero", "Logic Legend", "Team Tactician",
     "Solo Scholar"}
TraitBadges == {"Creative Genius", "Analytical Ace", "Persistence Pro", "Born Leader"}
InterestBadges ==
    {"Tech Wizard", "Creative Visionary", "Future Founder", "Science Explorer", "Word Weaver"}

\* C30: the secondary badge derived from the first top trait is one of the
\* four trait badges, the one derived from the first top interest is one of
\* the five interest badges, and no learning-style badge is among the
\* secondary badges.
C30_BadgesStayInTheirTable ==
    Badged =>
        LET traits == first_ret.val.top_traits
            interests == first_ret.val.top_interests
            sec == ret.val.secondary_badges
        IN  /\ FirstHasBadge(traits) => sec[1] \in TraitBadges
            /\ FirstHasBadge(interests) => sec[Len(sec)] \in InterestBadges
            /\ \A i \in 1..Len(sec) : sec[i] \notin StyleBadges

(***************************************************************************)
(* The questionnaire lookup.                                               *)
(***************************************************************************)
\* the questions of the band containing age: elementary 5..10, middle
\* 11..13, high 14..18, none for any other age
BandQuestions(age) ==
    IF age \in 5..10 THEN ELEMENTARY_QUESTIONS
    ELSE IF age \in 11..13 THEN MIDDLE_SCHOOL_QUESTIONS
    ELSE IF age \in 14..18 THEN HIGH_SCHOOL_QUESTIONS
    ELSE <<>>

\* the get_questions_for_age calls made so far
Lookups == {i \in 1..Len(returned) : history[i] = "get_questions_for_age"}

\* C23: every get_questions_for_age(age) made so far returned the common
\* questions followed by the questions of the band containing age, and only
\* the common questions for an age outside the bands; the common questions
\* are what they were at the start, and two calls for the same age returned
\* the same list.
C23_QuestionsForAge ==
    /\ COMMON_QUESTIONS = COMMON_QUESTIONS_INIT
    /\ \A i \in Lookups :
            returned[i].questions = COMMON_QUESTIONS_INIT \o BandQuestions(returned[i].age)
    /\ \A i, j \in Lookups :
            returned[i].age = returned[j].age => returned[i].questions = returned[j].questions

\* a call at the upper limit of a band, one outside the bands and a second
\* call for the first age
C23_Witness ==
    /\ Len(returned) = 3 /\ Lookups = 1..3
    /\ returned[1].age = 10 /\ returned[2].age = 19 /\ returned[3].age = 10
    /\ Len(returned[1].questions) = Len(COMMON_QUESTIONS_INIT) + Len(ELEMENTARY_QUESTIONS)
    /\ returned[2].questions = COMMON_QUESTIONS_INIT

(***************************************************************************)
(* The journey steps of the mathematics pathway.                           *)
(***************************************************************************)
JourneyReturned == ret.op # "none" /\ ret.pc = "done"

\* C24: for every pathway type, every level index 0..3 and every list of
\* recommended courses, _generate_journey_steps leaves its loop and returns,
\* and what it returns is exactly 3 journey steps.
C24_JourneyTerminatesWithThreeSteps ==
    <>[](JourneyReturned /\ Len(ret.journey_steps) = 3)

\* the integrated pathway from level index 3: the loop has run twice and the
\* three steps are the Expert level and two copies of it
C24_Witness ==
    /\ JourneyReturned
    /\ input.call = "_generate_journey_steps"
    /\ input.pathway_type = "integrated" /\ input.level_index = 3
    /\ Len(input.recommended_courses) = 2
    /\ Len(ret.journey_steps) = 3
    /\ ret.journey_steps[3].advanced = 2

\* the place of a level name in the order Beginner < Intermediate < Advanced
\* < Expert
LevelRank(name) == CHOOSE i \in 1..Len(LEVEL_NAMES) : LEVEL_NAMES[i] = name

\* C29: the journey steps generate_math_pathway returns are in
\* non-decreasing level order.
C29_JourneyLevelsAscend ==
    (JourneyReturned /\ ret.op = "generate_math_pathway") =>
        \A i \in 1..(Len(ret.journey_steps) - 1) :
            LevelRank(ret.journey_steps[i].level) <= LevelRank(ret.journey_steps[i + 1].level)

(***************************************************************************)
(* The categories of the learning pathway.                                 *)
(***************************************************************************)
\* C26: for every profile the pathway's primary_category and
\* secondary_category are both categories of the course catalog and differ
\* from each other.
C26_TwoCatalogCategories ==
    PathwayReturned =>
        /\ first_ret.val.primary_category \in Range(CATEGORIES)
        /\ first_ret.val.secondary_category \in Range(CATEGORIES)
        /\ first_ret.val.primary_category # first_ret.val.secondary_category

\* a profile whose only catalog interest is also the first category of its
\* learning style: the secondary category is the style's other category
C26_Witness ==
    /\ PathwayReturned
    /\ input.profile.primary = "visual"
    /\ input.profile.top_interests = <<"social", "arts">>
    /\ first_ret.val.primary_category = "arts"
    /\ first_ret.val.secondary_category = "tech"

(***************************************************************************)
(* The courses recommended.                                                *)
(***************************************************************************)
Recommended == ret.op = "recommend_courses"

\* the ids of the candidate pool: the courses of the pathway's two
\* categories and of the top interests
PoolIds ==
    {course.id :
        course \in UNION {Range(COURSES_INIT[c]) :
                            c \in ({first_ret.val.primary_category,
                                    first_ret.val.secondary_category}
                                   \cup Range(input.profile.top_interests))
                                  \cap DOMAIN COURSES_INIT}}

\* the course's age range contains the student's age
FitsAge(id) ==
    /\ CourseById(COURSES_INIT, id).age_range[1] <= input.age
    /\ input.age <= CourseById(COURSES_INIT, id).age_range[2]

\* the candidates that are scored: the pool filtered by age, the whole pool
\* when the filter leaves nothing
Candidates ==
    IF \E id \in PoolIds : FitsAge(id) THEN {id \in PoolIds : FitsAge(id)} ELSE PoolIds

FitScoreOf(id) ==
    _calculate_course_fit_score(COURSES_INIT, CourseById(COURSES_INIT, id),
        input.profile.primary, input.profile.secondary, input.profile.top_traits,
        input.profile.top_interests)

\* the positions of the returned list filled from the scored candidates
FromPool == 1..Min(DefaultCount, Cardinality(Candidates))

\* C25: for an age 5..18 and the pathway of the same profile,
\* recommend_courses returns exactly 3 pairwise distinct courses; those taken
\* from the scored candidates come in non-increasing order of fit score, and
\* no candidate left out scores strictly higher than one taken.
C25_ThreeBestCourses ==
    (Recommended /\ input.age \in 5..18) =>
        /\ Len(ret.val) = 3
        /\ \A i, j \in 1..Len(ret.val) : i # j => ret.val[i] # ret.val[j]
        /\ \A i \in FromPool : ret.val[i] \in Candidates
        /\ \A i, j \in FromPool : i < j => FitScoreOf(ret.val[i]) >= FitScoreOf(ret.val[j])
        /\ \A id \in Candidates \ {ret.val[i] : i \in FromPool} :
                \A i \in FromPool : FitScoreOf(id) <= FitScoreOf(ret.val[i])

\* more candidates than places, of different scores, and one left out
C25_Witness ==
    /\ Recommended /\ input.age = 12
    /\ Cardinality(Candidates) > 3
    /\ FitScoreOf(ret.val[1]) > FitScoreOf(ret.val[3])
    /\ \E id \in Candidates : id \notin Range(ret.val) /\ FitScoreOf(id) < FitScoreOf(ret.val[3])

\* C27: if a course of the candidate pool has an age range containing the
\* student's age, every course returned, the backfilled ones included, has
\* an age range containing it.
C27_ReturnedCoursesFitAge ==
    (Recommended /\ \E id \in PoolIds : FitsAge(id)) =>
        \A i \in 1..Len(ret.val) : FitsAge(ret.val[i])

\* one course of the pool fits the age and two courses are backfilled
C27_Witness ==
    /\ Recommended
    /\ Cardinality({id \in PoolIds : FitsAge(id)}) = 1
    /\ Len(ret.val) = 3
    /\ ret.val[2] \notin PoolIds /\ ret.val[3] \notin PoolIds

====
